---------------------------- MODULE Spec2Model ----------------------------
(***************************************************************************)
(* A model of pyxtf/xtf_ctypes.py: the ctypes structures of the eXtended   *)
(* Triton Format, the construction of a structure from a byte source       *)
(* (XTFBase.__new__), the file header with its derived channel views, the  *)
(* packet decoders with their magic check, the ping decoder with its       *)
(* per-channel sample extraction, and the header-type routing table.       *)
(*                                                                         *)
(* A byte source is described by the number of bytes it holds and by the   *)
(* values of the fields its bytes encode; a read of n bytes returns        *)
(* min(n, bytes left) bytes and a read of a negative count returns all     *)
(* bytes left, as io.BytesIO.read does.  A Python exception is the `exc'   *)
(* field of an operation's outcome; "" means the call returned normally.   *)
(***************************************************************************)
EXTENDS Integers, Sequences, FiniteSets, TLC

VARIABLES stream, pos, header, result

vars == <<stream, pos, header, result>>

-----------------------------------------------------------------------------
(* Bounds of the model.                                                    *)

\* Largest value of NumberOfSonarChannels and NumberOfBathymetryChannels.
MaxCount == 2
\* Number of leading ChanInfo slots whose descriptor varies; the slots after
\* them are zero-filled.
MaxVaried == 3
\* Largest NumChansToFollow of a sonar ping.
MaxChans == 2
\* Largest NumSamples of a ping channel sub-header.
MaxSamples == 2
\* Largest number of bytes by which NumBytesThisRecord exceeds the sizes of
\* the ping header and one channel sub-header.
MaxPayload == 4
\* Largest number of whole beam records in a bathymetry block.
MaxBeams == 2

-----------------------------------------------------------------------------
(* Helpers.                                                                *)

Min(a, b) == IF a < b THEN a ELSE b

\* Python's floor division a // b for b > 0.
FloorDiv(a, b) == IF a >= 0 THEN a \div b ELSE -((-a + b - 1) \div b)

RECURSIVE SumWidths(_, _)
SumWidths(fields, i) ==
    IF i > Len(fields) THEN 0 ELSE fields[i][2] + SumWidths(fields, i + 1)

\* ctypes.sizeof of a _pack_ = 1 structure: the sum of the field widths.
sizeof(fields) == SumWidths(fields, 1)

\* The position (0-based) of a name in a declaration order.
RECURSIVE IndexOf(_, _, _)
IndexOf(names, n, i) ==
    IF names[i] = n THEN i - 1 ELSE IndexOf(names, n, i + 1)

\* AutoIntEnum.__new__: a member's value is the number of members declared
\* before it.
AutoIntEnum(names) ==
    [n \in {names[i] : i \in 1..Len(names)} |-> IndexOf(names, n, 1)]

XTFChannelType == AutoIntEnum(<<"subbottom", "port", "stbd", "bathy">>)

XTFManufacturerID_names ==
    <<"unknown", "benthos", "reson", "edgetech", "klein", "coda",
      "kongsberg", "cmax", "marine_sonics", "applied_signal", "imagenex",
      "geoacoustics">>

XTFManufacturerID == AutoIntEnum(XTFManufacturerID_names)

XTFSonarType_names ==
    <<"none", "jamstec", "analog_c31", "sis1000", "analog_32chan",
      "klein2000", "rws", "df1000", "seabat", "klein595", "egg260",
      "sonatech_dds", "echoscan", "elac", "klein5000",
      "reson_seabat_8101", "imagenex_858", "usn_silos", "sonatech",
      "delph_au32", "generic_sonar", "simrad_sm2000",
      "standard_multimedia_audio", "edgetech_aci_card",
      "edgetech_black_box", "fugro_deeptow",
      "cc_edgetech_chirp_conversion", "dti_sas", "fugro_osiris_ss",
      "fugro_osiris_mb", "geoacoustics_sls", "simrad_em2000_em3000",
      "klein_system_3000", "shrsss_chirp_system",
      "benthos_c3d_sara_caati", "edgetech_mpx", "cmax", "benthos_sis1624",
      "edgetech_4200", "benthos_sis1500", "benthos_sis1502",
      "benthos_sis3000", "benthos_sis7000", "df1000_dcu", "none_sidescan",
      "none_multibeam", "reson_7125", "coda_echoscope", "kongsberg_sas",
      "qinsy", "geoacoustics_dsss", "cmax_usb", "swathplus_bathy",
      "r2sonic_qinsy", "r2sonic_triton", "swathplus_converted_bathy",
      "edgetech_4600", "klein_3500", "klein_5900", "em2040", "klein5kv2",
      "dt100", "kraken62", "unknown1", "unknown2", "kraken65",
      "klein_4900", "fsi_hms622", "fsi_hms6x4", "fsi_hms6x5">>

XTFSonarType == AutoIntEnum(XTFSonarType_names)

\* The integer an AutoIntEnum member is: __new__ builds it with
\* int.__new__(cls), without a value, and only sets _value_.
int_new(names) == [n \in {names[i] : i \in 1..Len(names)} |-> 0]

\* A member of an enumeration: its value and the integer it is; no member
\* was read.
NoMember == [value |-> -1, number |-> -1]

\* The declaration orders of the auto-incrementing enumerations.
AutoEnumNames ==
    [XTFChannelType |-> <<"subbottom", "port", "stbd", "bathy">>,
     XTFManufacturerID |-> XTFManufacturerID_names,
     XTFSonarType |-> XTFSonarType_names]

\* AssertionError('XTFSonarType enumeration ends on incorrect number').
EndsIncorrect == "AssertionError: XTFSonarType enumeration ends on incorrect number"

-----------------------------------------------------------------------------
(* Structure layouts: <<field name, width in bytes>> in declaration order. *)

XTFChanInfo_fields ==
    <<<<"TypeOfChannel", 1>>,
       <<"SubChannelNumber", 1>>,
       <<"CorrectionFlags", 2>>,
       <<"UniPolar", 2>>,
       <<"BytesPerSample", 2>>,
       <<"Reserved", 4>>,
       <<"ChannelName", 16>>,
       <<"VoltScale", 4>>,
       <<"Frequency", 4>>,
       <<"HorizBeamAngle", 4>>,
       <<"TiltAngle", 4>>,
       <<"BeamWidth", 4>>,
       <<"OffsetX", 4>>,
       <<"OffsetY", 4>>,
       <<"OffsetZ", 4>>,
       <<"OffsetYaw", 4>>,
       <<"OffsetPitch", 4>>,
       <<"OffsetRoll", 4>>,
       <<"BeamsPerArray", 2>>,
       <<"ReservedArea2", 54>>>>

XTFFileHeader_fields ==
    <<<<"FileFormat", 1>>,
       <<"SystemType", 1>>,
       <<"RecordingProgramName", 8>>,
       <<"RecordingProgramVersion", 8>>,
       <<"SonarName", 16>>,
       <<"SonarType", 2>>,
       <<"NoteString", 64>>,
       <<"ThisFileName", 64>>,
       <<"NavUnits", 2>>,
       <<"NumberOfSonarChannels", 2>>,
       <<"NumberOfBathymetryChannels", 2>>,
       <<"NumberOfSnippetChannels", 1>>,
       <<"NumberOfForwardLookArrays", 1>>,
       <<"NumberOfEchoStrengthChannels", 2>>,
       <<"NumberOfInterferometryChannels", 1>>,
       <<"Reserved1", 1>>,
       <<"Reserved2", 2>>,
       <<"ReferencePointHeight", 4>>,
       <<"ProjectionType", 12>>,
       <<"SpheriodType", 10>>,
       <<"NavigationLatency", 4>>,
       <<"OriginY", 4>>,
       <<"OriginX", 4>>,
       <<"NavOffsetY", 4>>,
       <<"NavOffsetX", 4>>,
       <<"NavOffsetZ", 4>>,
       <<"NavOffsetYaw", 4>>,
       <<"MRUOffsetY", 4>>,
       <<"MRUOffsetX", 4>>,
       <<"MRUOffsetZ", 4>>,
       <<"MRUOffsetYaw", 4>>,
       <<"MRUOffsetPitch", 4>>,
       <<"MRUOffsetRoll", 4>>,
       <<"ChanInfo", sizeof(XTFChanInfo_fields) * 6>>>>

\* XTFPacketStart_fields with Reserved1 one c_uint16 instead of two.
XTFPacketStart_fields_OneReserved ==
    <<<<"MagicNumber", 2>>,
       <<"HeaderType", 1>>,
       <<"SubChannelNumber", 1>>,
       <<"NumChansToFollow", 2>>,
       <<"Reserved1", 2>>,
       <<"NumBytesThisRecord", 4>>>>

XTFPacketStart_fields ==
    <<<<"MagicNumber", 2>>,
       <<"HeaderType", 1>>,
       <<"SubChannelNumber", 1>>,
       <<"NumChansToFollow", 2>>,
       <<"Reserved1", 4>>,
       <<"NumBytesThisRecord", 4>>>>

XTFAttitudeData_fields ==
    XTFPacketStart_fields \o
    <<<<"Reserved2", 8>>,
       <<"EpochMicroseconds", 4>>,
       <<"SourceEpoch", 4>>,
       <<"Pitch", 4>>,
       <<"Roll", 4>>,
       <<"Heave", 4>>,
       <<"Yaw", 4>>,
       <<"TimeTag", 4>>,
       <<"Heading", 4>>,
       <<"Year", 2>>,
       <<"Month", 1>>,
       <<"Day", 1>>,
       <<"Hour", 1>>,
       <<"Minute", 1>>,
       <<"Second", 1>>,
       <<"Millisecond", 2>>,
       <<"Reserved3", 1>>>>

XTFNotesHeader_fields ==
    XTFPacketStart_fields \o
    <<<<"Year", 2>>,
       <<"Month", 1>>,
       <<"Day", 1>>,
       <<"Hour", 1>>,
       <<"Minute", 1>>,
       <<"Second", 1>>,
       <<"ReservedBytes", 35>>,
       <<"NotesText", 200>>>>

XTFRawSerialHeader_fields ==
    XTFPacketStart_fields \o
    <<<<"Year", 2>>,
       <<"Month", 1>>,
       <<"Day", 1>>,
       <<"Hour", 1>>,
       <<"Minute", 1>>,
       <<"Second", 1>>,
       <<"HSeconds", 1>>,
       <<"JulianDay", 2>>,
       <<"TimeTag", 4>>,
       <<"StringSize", 2>>>>

XTFPingChanHeader_fields ==
    <<<<"ChannelNumber", 2>>,
       <<"DownsampleMethod", 2>>,
       <<"SlandRange", 4>>,
       <<"GroundRange", 4>>,
       <<"TimeDelay", 4>>,
       <<"TimeDuration", 4>>,
       <<"SecondsPerPing", 4>>,
       <<"ProcessingFlags", 2>>,
       <<"Frequency", 2>>,
       <<"InitialGainCode", 2>>,
       <<"GainCode", 2>>,
       <<"BandWidth", 2>>,
       <<"ContactNumber", 4>>,
       <<"ContactClassification", 2>>,
       <<"ContactSubNumber", 1>>,
       <<"ContactType", 1>>,
       <<"NumSamples", 4>>,
       <<"MillivoltScale", 2>>,
       <<"ContactTimeOffTrack", 4>>,
       <<"ContactCloseNumber", 1>>,
       <<"Reserved2", 1>>,
       <<"FixedVSOP", 4>>,
       <<"Weight", 2>>,
       <<"ReservedSpace", 4>>>>

XTFPingHeader_fields ==
    XTFPacketStart_fields \o
    <<<<"Year", 2>>,
       <<"Month", 1>>,
       <<"Day", 1>>,
       <<"Hour", 1>>,
       <<"Minute", 1>>,
       <<"Second", 1>>,
       <<"HSeconds", 1>>,
       <<"JulianDay", 2>>,
       <<"EventNumber", 4>>,
       <<"PingNumber", 4>>,
       <<"SoundVelocity", 4>>,
       <<"OceanTide", 4>>,
       <<"Reserved2", 4>>,
       <<"ConductivityFreq", 4>>,
       <<"TemperatureFreq", 4>>,
       <<"PressureFreq", 4>>,
       <<"PressureTemp", 4>>,
       <<"Conductivity", 4>>,
       <<"WaterTemperature", 4>>,
       <<"Pressure", 4>>,
       <<"ComputedSoundVelocity", 4>>,
       <<"MagX", 4>>,
       <<"MagY", 4>>,
       <<"MagZ", 4>>,
       <<"AuxVal1", 4>>,
       <<"AuxVal2", 4>>,
       <<"AuxVal3", 4>>,
       <<"AuxVal4", 4>>,
       <<"AuxVal5", 4>>,
       <<"AuxVal6", 4>>,
       <<"SpeedLog", 4>>,
       <<"Turbidity", 4>>,
       <<"ShipSpeed", 4>>,
       <<"ShipGyro", 4>>,
       <<"ShipYcoordinate", 8>>,
       <<"ShipXcoordinate", 8>>,
       <<"ShipAltitude", 2>>,
       <<"ShipDepth", 2>>,
       <<"FixTimeHour", 1>>,
       <<"FixTimeMinute", 1>>,
       <<"FixTimeSecond", 1>>,
       <<"FixTimeHsecond", 1>>,
       <<"SensorSpeed", 4>>,
       <<"KP", 4>>,
       <<"SensorYcoordinate", 8>>,
       <<"SensorXcoordinate", 8>>,
       <<"SonarStatus", 2>>,
       <<"RangeToFish", 2>>,
       <<"BearingToFish", 2>>,
       <<"CableOut", 2>>,
       <<"Layback", 4>>,
       <<"CableTension", 4>>,
       <<"SensorDepth", 4>>,
       <<"SensorPrimaryAltitude", 4>>,
       <<"SensorAuxAltitude", 4>>,
       <<"SensorPitch", 4>>,
       <<"SensorRoll", 4>>,
       <<"SensorHeading", 4>>,
       <<"Heave", 4>>,
       <<"Yaw", 4>>,
       <<"AttitudeTimeTag", 4>>,
       <<"DOT", 4>>,
       <<"NavFixMilliseconds", 4>>,
       <<"ComputerClockHour", 1>>,
       <<"ComputerClockMinute", 1>>,
       <<"ComputerClockSecond", 1>>,
       <<"ComputerClockHsec", 1>>,
       <<"FishPositionDeltaX", 2>>,
       <<"FishPositionDeltaY", 2>>,
       <<"FishPositionErrorCode", 1>>,
       <<"OptionalOffset", 4>>,
       <<"CableOutHundredths", 1>>,
       <<"ReservedSpace2", 6>>>>

XTFPosRawNavigation_fields ==
    XTFPacketStart_fields \o
    <<<<"Year", 2>>,
       <<"Month", 1>>,
       <<"Day", 1>>,
       <<"Hour", 1>>,
       <<"Minute", 1>>,
       <<"Second", 1>>,
       <<"Microsecond", 2>>,
       <<"RawYcoordinate", 8>>,
       <<"RawXcoordinate", 8>>,
       <<"RawAltitude", 8>>,
       <<"Pitch", 4>>,
       <<"Roll", 4>>,
       <<"Heave", 4>>,
       <<"Heading", 4>>,
       <<"Reserved2", 1>>>>

XTFQPSSingleBeam_fields ==
    XTFPacketStart_fields \o
    <<<<"TimeTag", 4>>,
       <<"Id", 4>>,
       <<"SoundVelocity", 4>>,
       <<"Intensity", 4>>,
       <<"Quality", 4>>,
       <<"TwoWayTravelTime", 4>>,
       <<"Year", 2>>,
       <<"Month", 1>>,
       <<"Day", 1>>,
       <<"Hour", 1>>,
       <<"Minute", 1>>,
       <<"Second", 1>>,
       <<"Millisecond", 2>>,
       <<"Reserved2", 7>>>>

XTFRawCustomHeader_fields ==
    <<<<"MagicNumber", 2>>,
       <<"HeaderType", 1>>,
       <<"ManufacturerID", 1>>,
       <<"SonarID", 2>>,
       <<"PacketID", 4>>,
       <<"Reserved1", 4>>,
       <<"NumBytesThisRecord", 4>>,
       <<"Id", 4>>,
       <<"SoundVelocity", 4>>,
       <<"Intensity", 4>>,
       <<"Quality", 4>>,
       <<"TwoWayTravelTime", 4>>,
       <<"Year", 2>>,
       <<"Month", 1>>,
       <<"Day", 1>>,
       <<"Hour", 1>>,
       <<"Minute", 1>>,
       <<"Second", 1>>,
       <<"Millisecond", 2>>,
       <<"Reserved2", 7>>>>

XTFHeaderNavigation_fields ==
    <<<<"MagicNumber", 2>>,
       <<"HeaderType", 1>>,
       <<"Reserved", 7>>,
       <<"NumBytesThisRecord", 4>>,
       <<"Year", 2>>,
       <<"Month", 1>>,
       <<"Day", 1>>,
       <<"Hour", 1>>,
       <<"Minute", 1>>,
       <<"Second", 1>>,
       <<"Microsecond", 4>>,
       <<"SourceEpoch", 4>>,
       <<"TimeTag", 4>>,
       <<"RawYcoordinate", 8>>,
       <<"RawXcoordinate", 8>>,
       <<"RawAltitude", 8>>,
       <<"TimeFlag", 1>>,
       <<"Reserved2", 6>>>>

XTFHeaderGyro_fields ==
    <<<<"MagicNumber", 2>>,
       <<"HeaderType", 1>>,
       <<"Reserved", 7>>,
       <<"NumBytesThisRecord", 4>>,
       <<"Year", 2>>,
       <<"Month", 1>>,
       <<"Day", 1>>,
       <<"Hour", 1>>,
       <<"Minute", 1>>,
       <<"Second", 1>>,
       <<"Microsecond", 4>>,
       <<"SourceEpoch", 4>>,
       <<"TimeTag", 4>>,
       <<"Gyro", 4>>,
       <<"TimeFlag", 1>>,
       <<"Reserved1", 26>>>>

XTFHighSpeedSensor_fields ==
    XTFPacketStart_fields \o
    <<<<"Year", 2>>,
       <<"Month", 1>>,
       <<"Day", 1>>,
       <<"Hour", 1>>,
       <<"Minute", 1>>,
       <<"Second", 1>>,
       <<"HSeconds", 1>>,
       <<"NumSensorBytes", 4>>,
       <<"RelativeBathyPingNum", 4>>,
       <<"Reserved3", 34>>>>

XTFBeamXYZA_fields ==
    <<<<"dPosOffsetTrX", 8>>,
       <<"dPosOffsetTrY", 8>>,
       <<"fDepth", 4>>,
       <<"dTime", 8>>,
       <<"usAmpl", 2>>,
       <<"ucQuality", 1>>>>

SNP0_fields ==
    <<<<"ID", 4>>,
       <<"HeaderSize", 2>>,
       <<"DataSize", 2>>,
       <<"PingNumber", 4>>,
       <<"Seconds", 4>>,
       <<"Millisec", 4>>,
       <<"Latency", 2>>,
       <<"SonarID", 4>>,
       <<"SonarModel", 2>>,
       <<"Frequency", 2>>,
       <<"SSpeed", 2>>,
       <<"SampleRate", 2>>,
       <<"PingRate", 2>>,
       <<"Range", 2>>,
       <<"Power", 2>>,
       <<"Gain", 2>>,
       <<"PulseWidth", 2>>,
       <<"Spread", 2>>,
       <<"Absorb", 2>>,
       <<"Proj", 2>>,
       <<"ProjWidth", 2>>,
       <<"SpacingNum", 2>>,
       <<"SpacingDen", 2>>,
       <<"ProjAngle", 2>>,
       <<"MinRange", 2>>,
       <<"MaxRange", 2>>,
       <<"MinDepth", 2>>,
       <<"MaxDepth", 2>>,
       <<"Filters", 2>>,
       <<"bFlags", 2>>,
       <<"HeadTemp", 2>>,
       <<"BeamCnt", 2>>>>

SNP1_fields ==
    <<<<"ID", 4>>,
       <<"HeaderSize", 2>>,
       <<"DataSize", 2>>,
       <<"PingNumber", 4>>,
       <<"Beam", 2>>,
       <<"SnipSamples", 2>>,
       <<"GainStart", 2>>,
       <<"GainEnd", 2>>,
       <<"FragOffset", 2>>,
       <<"FragSamples", 2>>>>


\* The structures by class name.
Structures ==
    [XTFChanInfo |-> XTFChanInfo_fields,
     XTFFileHeader |-> XTFFileHeader_fields,
     XTFPacketStart |-> XTFPacketStart_fields,
     XTFAttitudeData |-> XTFAttitudeData_fields,
     XTFNotesHeader |-> XTFNotesHeader_fields,
     XTFRawSerialHeader |-> XTFRawSerialHeader_fields,
     XTFPingChanHeader |-> XTFPingChanHeader_fields,
     XTFPingHeader |-> XTFPingHeader_fields,
     XTFPosRawNavigation |-> XTFPosRawNavigation_fields,
     XTFQPSSingleBeam |-> XTFQPSSingleBeam_fields,
     XTFRawCustomHeader |-> XTFRawCustomHeader_fields,
     XTFHeaderNavigation |-> XTFHeaderNavigation_fields,
     XTFHeaderGyro |-> XTFHeaderGyro_fields,
     XTFHighSpeedSensor |-> XTFHighSpeedSensor_fields,
     XTFBeamXYZA |-> XTFBeamXYZA_fields,
     SNP0 |-> SNP0_fields,
     SNP1 |-> SNP1_fields]

\* ctypes.sizeof of every structure.
SizeOf == [cls \in DOMAIN Structures |-> sizeof(Structures[cls])]

\* XTFHeaderType: the header-type tags with their fixed values.
XTFHeaderType ==
    [sonar |-> 0,
     notes |-> 1,
     bathy |-> 2,
     attitude |-> 3,
     forward |-> 4,
     elac |-> 5,
     raw_serial |-> 6,
     embed_head |-> 7,
     hidden_sonar |-> 8,
     seaview_processed_bathy |-> 9,
     seaview_depths |-> 10,
     rsvd_highspeed_sensor |-> 11,
     echostrength |-> 12,
     georec |-> 13,
     klein_raw_bathy |-> 14,
     highspeed_sensor2 |-> 15,
     elac_xse |-> 16,
     bathy_xyza |-> 17,
     k5000_bathy_iq |-> 18,
     bathy_snippet |-> 19,
     gps |-> 20,
     gps_statistics |-> 21,
     single_beam |-> 22,
     gyro |-> 23,
     trackpoint |-> 24,
     multibeam |-> 25,
     q_singlebeam |-> 26,
     q_multitx |-> 27,
     q_multibeam |-> 28,
     navigation |-> 42,
     time |-> 50,
     benthos_caati_sara |-> 60,
     header_7125 |-> 61,
     header_7125_snippet |-> 62,
     qinsy_r2sonic_bathy |-> 65,
     qinsy_r2sonic_fts |-> 66,
     r2sonic_bathy |-> 68,
     r2sonic_fts |-> 69,
     coda_echoscope_data |-> 70,
     coda_echoscope_config |-> 71,
     coda_echoscope_image |-> 72,
     edgetech_4600 |-> 73,
     multibeam_raw_beam_angle |-> 74,
     sourcetime_gyro |-> 84,
     reson_position |-> 100,
     bathy_proc |-> 102,
     attitude_proc |-> 103,
     singlebeam_proc |-> 104,
     aux_proc |-> 105,
     pos_raw_navigation |-> 107,
     kleinv4_data_page |-> 108,
     custom_vendor_data |-> 199,
     user_defined |-> 200]

\* XTFPacketClasses without the entry of sourcetime_gyro.
XTFPacketClasses_OneGyro ==
    (XTFHeaderType.sonar :> "XTFPingHeader") @@
    (XTFHeaderType.bathy :> "XTFPingHeader") @@
    (XTFHeaderType.bathy_xyza :> "XTFPingHeader") @@
    (XTFHeaderType.attitude :> "XTFAttitudeData") @@
    (XTFHeaderType.notes :> "XTFNotesHeader") @@
    (XTFHeaderType.raw_serial :> "XTFRawSerialHeader") @@
    (XTFHeaderType.pos_raw_navigation :> "XTFPosRawNavigation") @@
    (XTFHeaderType.q_singlebeam :> "XTFQPSSingleBeam") @@
    (XTFHeaderType.custom_vendor_data :> "XTFRawCustomHeader") @@
    (XTFHeaderType.navigation :> "XTFHeaderNavigation") @@
    (XTFHeaderType.gyro :> "XTFHeaderGyro") @@
    (XTFHeaderType.highspeed_sensor2 :> "XTFHighSpeedSensor")

\* XTFPacketClasses: the map from header type to the class that decodes it.
XTFPacketClasses ==
    (XTFHeaderType.sonar :> "XTFPingHeader") @@
    (XTFHeaderType.bathy :> "XTFPingHeader") @@
    (XTFHeaderType.bathy_xyza :> "XTFPingHeader") @@
    (XTFHeaderType.attitude :> "XTFAttitudeData") @@
    (XTFHeaderType.notes :> "XTFNotesHeader") @@
    (XTFHeaderType.raw_serial :> "XTFRawSerialHeader") @@
    (XTFHeaderType.pos_raw_navigation :> "XTFPosRawNavigation") @@
    (XTFHeaderType.q_singlebeam :> "XTFQPSSingleBeam") @@
    (XTFHeaderType.custom_vendor_data :> "XTFRawCustomHeader") @@
    (XTFHeaderType.navigation :> "XTFHeaderNavigation") @@
    (XTFHeaderType.gyro :> "XTFHeaderGyro") @@
    (XTFHeaderType.sourcetime_gyro :> "XTFHeaderGyro") @@
    (XTFHeaderType.highspeed_sensor2 :> "XTFHighSpeedSensor")

-----------------------------------------------------------------------------
(* Exceptions.                                                             *)

\* No exception: the call returned.
NoExc == ""
\* RuntimeError('XTF file shorter than expected (end hit while reading ...)').
EndHit == "RuntimeError: XTF file shorter than expected"
\* ValueError of from_buffer_copy when it is given too few bytes.
BufferTooSmall == "ValueError: Buffer size too small"
\* IndexError of indexing a ctypes array or a list out of range.
IndexError == "IndexError"
\* RuntimeError('XTF packet does not start with the correct identifier (0xFACE).').
BadMagic == "RuntimeError: XTF packet does not start with the correct identifier"
\* RuntimeError('Initialization of XTFPingHeader from buffer requires file_header to be passed.').
NoFileHeader == "RuntimeError: XTFPingHeader from buffer requires file_header"
\* RuntimeError('Number of bytes to read exceeds the number of bytes remaining in packet.').
ExceedsRemaining == "RuntimeError: Number of bytes to read exceeds the number of bytes remaining"
\* RuntimeError('File ended while reading data packets (file corrupt?)').
FileEnded == "RuntimeError: File ended while reading data packets"
\* Exception('XTF data packets missing (file corrupt?)').
DataMissing == "Exception: XTF data packets missing"
\* RuntimeError('Unknown XTFPingHeader type encountered.').
UnknownPingType == "RuntimeError: Unknown XTFPingHeader type encountered"
\* KeyError of xtf_dtype[...] for a width that is not 1, 2, 4 or 8.
KeyError == "KeyError"
\* ValueError of np.frombuffer: buffer size not a multiple of the element size.
NotMultiple == "ValueError: buffer size must be a multiple of element size"
\* ValueError of `XTFBeamXYZA * n' for a negative n.
NegativeLength == "ValueError: Array length must be >= 0"

-----------------------------------------------------------------------------
(* Byte sources.                                                           *)

\* The truth value of the `buffer' argument: an io object is always true,
\* bytes and bytearray are true when they are not empty, None is false.
Truth(kind, left) ==
    \/ kind = "stream"
    \/ kind \in {"bytes", "bytearray"} /\ left > 0

\* buffer.read(n) on a source with `left' bytes: the number of bytes returned.
read(left, n) == IF n < 0 THEN left ELSE Min(n, left)

\* XTFBase.__new__: nread bytes are taken from the source; `filled' tells
\* whether the object was built from them (otherwise it is zero-filled).
XTFBase_new(cls, kind, left) ==
    IF Truth(kind, left)
    THEN LET header_bytes == read(left, SizeOf[cls]) IN
         IF header_bytes = 0
         THEN [exc |-> EndHit, nread |-> 0, filled |-> FALSE]
         ELSE IF header_bytes < SizeOf[cls]
         THEN [exc |-> BufferTooSmall, nread |-> header_bytes, filled |-> FALSE]
         ELSE [exc |-> NoExc, nread |-> header_bytes, filled |-> TRUE]
    ELSE [exc |-> NoExc, nread |-> 0, filled |-> FALSE]

-----------------------------------------------------------------------------
(* The file header.                                                        *)

\* Number of ChanInfo slots of a file header (XTFChanInfo * 6).
NumChanInfo == 6

\* A zero-filled channel descriptor.
ZeroChanInfo == [TypeOfChannel |-> 0, BytesPerSample |-> 0, Reserved |-> 0]

\* A zero-filled file header, as ctypes creates it.
ZeroFileHeader ==
    [NumberOfSonarChannels |-> 0,
     NumberOfBathymetryChannels |-> 0,
     NumberOfSnippetChannels |-> 0,
     NumberOfForwardLookArrays |-> 0,
     NumberOfEchoStrengthChannels |-> 0,
     NumberOfInterferometryChannels |-> 0,
     ChanInfo |-> [i \in 1..NumChanInfo |-> ZeroChanInfo]]

\* XTFFileHeader.sonar_chan_types.
sonar_chan_types ==
    {XTFChannelType["port"], XTFChannelType["stbd"], XTFChannelType["subbottom"]}

\* channel_count without the interferometry channels.
channel_count_FiveCounters(self) ==
    self.NumberOfSonarChannels
    + self.NumberOfBathymetryChannels
    + self.NumberOfSnippetChannels
    + self.NumberOfForwardLookArrays
    + self.NumberOfEchoStrengthChannels

\* XTFFileHeader.channel_count.
channel_count(self) ==
    self.NumberOfSonarChannels
    + self.NumberOfBathymetryChannels
    + self.NumberOfSnippetChannels
    + self.NumberOfForwardLookArrays
    + self.NumberOfEchoStrengthChannels
    + self.NumberOfInterferometryChannels

\* No file header object (Python's None).
None ==
    [is_none |-> TRUE, from_buffer |-> FALSE, fields |-> ZeroFileHeader,
     sonar_info |-> <<>>, bathy_info |-> <<>>]

\* XTFFileHeader(buffer): __new__ then __init__.  `content' is the header the
\* bytes of the source encode.
XTFFileHeader(kind, left, content) ==
    LET new == XTFBase_new("XTFFileHeader", kind, left)
        self == IF new.filled THEN content ELSE ZeroFileHeader
        n == channel_count(self)
        chan_info == [i \in 1..n |-> self.ChanInfo[i]]
    IN  IF new.exc # NoExc
        THEN [exc |-> new.exc, nread |-> new.nread, obj |-> None]
        ELSE IF Truth(kind, left)
        THEN IF \E i \in 0..(n - 1) : i >= Len(self.ChanInfo)
             THEN [exc |-> IndexError, nread |-> new.nread, obj |-> None]
             ELSE [exc |-> NoExc, nread |-> new.nread,
                   obj |-> [is_none |-> FALSE, from_buffer |-> TRUE,
                            fields |-> self,
                            sonar_info |-> SelectSeq(chan_info,
                                LAMBDA x : x.TypeOfChannel \in sonar_chan_types),
                            bathy_info |-> SelectSeq(chan_info,
                                LAMBDA x : x.TypeOfChannel = XTFChannelType["bathy"])]]
        ELSE [exc |-> NoExc, nread |-> new.nread,
              obj |-> [is_none |-> FALSE, from_buffer |-> FALSE,
                       fields |-> [self EXCEPT !.ChanInfo =
                                      [i \in 1..NumChanInfo |->
                                          [self.ChanInfo[i] EXCEPT !.Reserved = 1024]]],
                       sonar_info |-> <<>>, bathy_info |-> <<>>]]

-----------------------------------------------------------------------------
(* Packets.                                                                *)

\* A packet whose fields are all zero.  The bytes of a packet are held by
\* the fields of XTFPacketStart and of the payload headers; Word14 is the
\* unsigned 32-bit word at bytes 14..17, where XTFRawCustomHeader declares
\* its NumBytesThisRecord.
ZeroPacket ==
    [MagicNumber |-> 0, HeaderType |-> 0, NumChansToFollow |-> 0,
     NumBytesThisRecord |-> 0, NumSamples |-> <<>>, ID |-> 0,
     StringSize |-> 0, Word14 |-> 0]

\* The magic number at the start of a packet.
FACE == 64206

\* MagicCheck with the two bytes of the magic number in the wrong order.
MagicCheck_Swapped(kind, left, self) ==
    IF Truth(kind, left) /\ self.MagicNumber # 52986 THEN BadMagic ELSE NoExc

\* XTFPacketStart.__init__ and the __init__ of XTFRawCustomHeader,
\* XTFHeaderNavigation and XTFHeaderGyro: the magic check of a packet built
\* from a buffer.
MagicCheck(kind, left, self) ==
    IF Truth(kind, left) /\ self.MagicNumber # FACE THEN BadMagic ELSE NoExc

\* xtf_dtype: the sample widths that have a numpy type.
xtf_dtype == {1, 2, 4, 8}

\* XTFPingHeader._bathy_header_types.
bathy_header_types ==
    {XTFHeaderType.bathy_xyza, XTFHeaderType.bathy,
     XTFHeaderType.multibeam_raw_beam_angle}

\* AttributeError of calling read on a bytes or bytearray object.
AttributeError == "AttributeError"

\* ResolveSamples with the legacy count preferred to NumSamples.
ResolveSamples_LegacyFirst(NumSamples, info) ==
    IF info.Reserved > 0 THEN info.Reserved ELSE NumSamples

\* The sample count of a channel: the sub-header's NumSamples if it is
\* positive, else the Reserved field of the channel's descriptor.
ResolveSamples(NumSamples, info) ==
    IF NumSamples > 0 THEN NumSamples ELSE info.Reserved

\* BytesRemaining computed in 16-bit unsigned arithmetic.
BytesRemaining_Unsigned(p_header) ==
    (p_header.NumBytesThisRecord
     - SizeOf["XTFPingHeader"]
     - SizeOf["XTFPingChanHeader"]) % 65536

\* The number of bytes a channel's samples may take.
BytesRemaining(p_header) ==
    p_header.NumBytesThisRecord
    - SizeOf["XTFPingHeader"]
    - SizeOf["XTFPingChanHeader"]

\* The number of beam records of a processed bathymetry block of n_bytes.
NumXYZA(n_bytes) == FloorDiv(n_bytes, SizeOf["XTFBeamXYZA"])

\* What an iteration of the channel loop has computed; -1 stands for a value
\* it did not reach.  `left' is the number of bytes left in the source.
NoChannel ==
    [exc |-> NoExc, left |-> 0, header_read |-> 0, appended |-> FALSE,
     n_samples |-> -1, n_bytes |-> -1, n_bytes_remaining |-> -1,
     requested |-> -1, samples |-> -1, length |-> -1, width |-> -1]

\* The end of an iteration: the samples read become a numpy array of the
\* channel's sample width.
ChannelArray(got, samples, BytesPerSample) ==
    IF samples = 0
    THEN [got EXCEPT !.exc = FileEnded]
    ELSE IF BytesPerSample \notin xtf_dtype
    THEN [got EXCEPT !.exc = KeyError]
    ELSE IF samples % BytesPerSample # 0
    THEN [got EXCEPT !.exc = NotMultiple]
    ELSE [got EXCEPT !.length = samples \div BytesPerSample,
                     !.width = BytesPerSample]

\* The middle of an iteration: the check of n_bytes against the bytes
\* remaining in the packet, then the read of the samples.
ChannelSamples(seen, kind, n_bytes, n_bytes_remaining, BytesPerSample) ==
    IF n_bytes > n_bytes_remaining
    THEN [seen EXCEPT !.exc = ExceedsRemaining]
    ELSE IF kind # "stream"
    THEN [seen EXCEPT !.exc = AttributeError]
    ELSE ChannelArray([seen EXCEPT !.requested = n_bytes,
                          !.samples = read(seen.left, n_bytes),
                          !.left = seen.left - read(seen.left, n_bytes)],
                      read(seen.left, n_bytes), BytesPerSample)

\* An iteration after its sub-header p_chan was read: the sample count and
\* the byte count of channel i (counted from 0), taken from sonar_info[i].
ChannelCounts(base, kind, NumSamples, p_header, sonar_info, i) ==
    IF i + 1 > Len(sonar_info)
    THEN [base EXCEPT !.exc = IndexError,
             !.n_samples = IF NumSamples > 0 THEN NumSamples ELSE -1]
    ELSE ChannelSamples(
             [base EXCEPT
                 !.n_samples = ResolveSamples(NumSamples, sonar_info[i + 1]),
                 !.n_bytes = ResolveSamples(NumSamples, sonar_info[i + 1])
                             * sonar_info[i + 1].BytesPerSample,
                 !.n_bytes_remaining = BytesRemaining(p_header)],
             kind,
             ResolveSamples(NumSamples, sonar_info[i + 1])
                 * sonar_info[i + 1].BytesPerSample,
             BytesRemaining(p_header),
             sonar_info[i + 1].BytesPerSample)

\* An iteration from the outcome p_new of XTFPingChanHeader(buffer=buffer).
ChannelHeader(p_new, kind, left, p_header, file_header, i) ==
    IF p_new.exc # NoExc
    THEN [NoChannel EXCEPT !.exc = p_new.exc, !.header_read = p_new.nread,
             !.left = IF kind = "stream" THEN left - p_new.nread ELSE left]
    ELSE ChannelCounts(
             [NoChannel EXCEPT !.header_read = p_new.nread, !.appended = TRUE,
                 !.left = IF kind = "stream" THEN left - p_new.nread ELSE left],
             kind, p_header.NumSamples[i + 1], p_header,
             file_header.sonar_info, i)

\* One iteration of the channel loop of XTFPingHeader.__new__, for channel i
\* (counted from 0) with `left' bytes left in the source.  A bytes object
\* passed as buffer is read from its start by every XTFPingChanHeader.
PingChannel(kind, left0, left, p_header, file_header, i) ==
    ChannelHeader(XTFBase_new("XTFPingChanHeader", kind,
                              IF kind = "stream" THEN left ELSE left0),
                  kind, left, p_header, file_header, i)

\* The channel loop of XTFPingHeader.__new__ from channel i on; chans is the
\* sequence of the outcomes of the iterations made so far.
RECURSIVE PingChannels(_, _, _, _, _, _, _)
PingLoop(c, kind, left0, p_header, file_header, i, chans) ==
    IF c.exc # NoExc
    THEN [exc |-> c.exc, left |-> c.left, chans |-> Append(chans, c)]
    ELSE PingChannels(kind, left0, c.left, p_header, file_header, i + 1,
                      Append(chans, c))

PingChannels(kind, left0, left, p_header, file_header, i, chans) ==
    IF i >= p_header.NumChansToFollow
    THEN [exc |-> NoExc, left |-> left, chans |-> chans]
    ELSE PingLoop(PingChannel(kind, left0, left, p_header, file_header, i),
                  kind, left0, p_header, file_header, i, chans)

\* The bathymetry branch after samples = buffer.read(n_bytes).
BathyData(base, HeaderType, n_bytes, samples) ==
    IF samples = 0
    THEN [base EXCEPT !.exc = DataMissing]
    ELSE IF HeaderType = XTFHeaderType.bathy_xyza
    THEN IF NumXYZA(n_bytes) < 0
         THEN [base EXCEPT !.exc = NegativeLength]
         ELSE IF samples < NumXYZA(n_bytes) * SizeOf["XTFBeamXYZA"]
         THEN [base EXCEPT !.exc = BufferTooSmall]
         ELSE [base EXCEPT !.data =
                  [k \in 1..NumXYZA(n_bytes) |->
                      [length |-> 1, width |-> SizeOf["XTFBeamXYZA"]]]]
    ELSE [base EXCEPT !.data = <<[length |-> samples, width |-> 1]>>]

\* The bathymetry branch of XTFPingHeader.__new__ for a block of n_bytes.
BathyBlock(kind, left, HeaderType, n_bytes) ==
    IF kind # "stream"
    THEN [exc |-> AttributeError, left |-> left, samples |-> 0, data |-> <<>>]
    ELSE BathyData([exc |-> NoExc, left |-> left - read(left, n_bytes),
                    samples |-> read(left, n_bytes), data |-> <<>>],
                   HeaderType, n_bytes, read(left, n_bytes))

PingBathy(kind, left, p_header) ==
    BathyBlock(kind, left, p_header.HeaderType,
               p_header.NumBytesThisRecord - SizeOf["XTFPingHeader"])

\* SonarData with the arrays in the reverse of the channel order.
SonarData_Reversed(chans) ==
    [k \in 1..Len(chans) |->
        [length |-> chans[Len(chans) + 1 - k].length,
         width |-> chans[Len(chans) + 1 - k].width]]

\* The data list of a sonar ping: one array per completed channel.
SonarData(chans) ==
    [k \in 1..Len(chans) |-> [length |-> chans[k].length, width |-> chans[k].width]]

\* The outcome of a constructor call: the exception raised, the bytes taken
\* from the source, the fields of the object, and what a ping decode did.
Outcome(e, n, rec, chans, data, bathy_read) ==
    [exc |-> e, nread |-> n, record |-> rec, chans |-> chans, data |-> data,
     bathy_read |-> bathy_read]

\* The end of a sonar ping decode: __new__ returns and __init__ checks the
\* magic number.
SonarInit(loop, magic, left0, p_header) ==
    IF loop.exc # NoExc
    THEN Outcome(loop.exc, left0 - loop.left, p_header, loop.chans, <<>>, -1)
    ELSE IF magic # NoExc
    THEN Outcome(magic, left0 - loop.left, p_header, loop.chans, <<>>, -1)
    ELSE Outcome(NoExc, left0 - loop.left, p_header, loop.chans,
                 SonarData(loop.chans), -1)

\* The end of a bathymetry ping decode.
BathyInit(b, magic, left0, p_header) ==
    IF b.exc # NoExc
    THEN Outcome(b.exc, left0 - b.left, p_header, <<>>, <<>>, b.samples)
    ELSE IF magic # NoExc
    THEN Outcome(magic, left0 - b.left, p_header, <<>>, <<>>, b.samples)
    ELSE Outcome(NoExc, left0 - b.left, p_header, <<>>, b.data, b.samples)

\* XTFPingHeader.__new__ after super().__new__ has built p_header, then
\* __init__.
PingPayload(nread, kind, left0, p_header, file_header) ==
    IF ~Truth(kind, left0)
    THEN Outcome(NoExc, 0, [p_header EXCEPT !.MagicNumber = FACE,
                               !.HeaderType = XTFHeaderType.sonar],
                 <<>>, <<>>, -1)
    ELSE IF file_header.is_none
    THEN Outcome(NoFileHeader, nread, p_header, <<>>, <<>>, -1)
    ELSE IF p_header.HeaderType = XTFHeaderType.sonar
    THEN SonarInit(PingChannels(kind, left0, left0 - nread, p_header,
                                file_header, 0, <<>>),
                   MagicCheck(kind, left0, p_header), left0, p_header)
    ELSE IF p_header.HeaderType \in bathy_header_types
    THEN BathyInit(PingBathy(kind, left0 - nread, p_header),
                   MagicCheck(kind, left0, p_header), left0, p_header)
    ELSE Outcome(UnknownPingType, nread, p_header, <<>>, <<>>, -1)

PingNew(new, kind, left0, content, file_header) ==
    IF new.exc # NoExc
    THEN Outcome(new.exc, new.nread, ZeroPacket, <<>>, <<>>, -1)
    ELSE PingPayload(new.nread, kind, left0,
                     IF new.filled THEN content ELSE ZeroPacket, file_header)

\* XTFPingHeader(buffer, file_header): __new__ then __init__.  `content' is
\* the packet the bytes of the source encode.
XTFPingHeader(kind, left0, content, file_header) ==
    PingNew(XTFBase_new("XTFPingHeader", kind, left0), kind, left0, content,
            file_header)

-----------------------------------------------------------------------------
(* The other packet decoders and structures.                               *)

\* The packet classes that derive from XTFPacketStart and keep XTFBase.__new__.
PacketStartClasses ==
    {"XTFPacketStart", "XTFAttitudeData", "XTFNotesHeader", "XTFRawSerialHeader",
     "XTFPosRawNavigation", "XTFQPSSingleBeam", "XTFHighSpeedSensor"}

\* The packet classes that derive from XTFPacket and check the magic number
\* in their own __init__.
OwnMagicClasses == {"XTFRawCustomHeader", "XTFHeaderNavigation", "XTFHeaderGyro"}

\* The packet classes.
PacketClasses == PacketStartClasses \cup OwnMagicClasses \cup {"XTFPingHeader"}

\* The structures that derive from XTFBase without being packets.
PlainClasses == {"XTFChanInfo", "XTFPingChanHeader", "XTFBeamXYZA"}

\* The snippet headers with their identifiers.
SnippetID == [SNP0 |-> 1397641264, SNP1 |-> 1397641265]

\* The HeaderType the __init__ of a packet class sets when there is no buffer.
DefaultHeaderType ==
    [XTFPacketStart |-> XTFHeaderType.user_defined,
     XTFAttitudeData |-> XTFHeaderType.attitude,
     XTFNotesHeader |-> XTFHeaderType.notes,
     XTFRawSerialHeader |-> XTFHeaderType.raw_serial,
     XTFPingHeader |-> XTFHeaderType.sonar,
     XTFPosRawNavigation |-> XTFHeaderType.pos_raw_navigation,
     XTFQPSSingleBeam |-> XTFHeaderType.q_singlebeam,
     XTFRawCustomHeader |-> XTFHeaderType.custom_vendor_data,
     XTFHeaderNavigation |-> XTFHeaderType.navigation,
     XTFHeaderGyro |-> XTFHeaderType.gyro,
     XTFHighSpeedSensor |-> XTFHeaderType.highspeed_sensor2]

\* __init__ of a packet class other than XTFPingHeader, on the object self
\* that XTFBase.__new__ built from nread bytes.  XTFRawSerialHeader.__init__
\* evaluates self.StringSize.value, and StringSize is a Python int.
PacketInit(cls, kind, left, nread, self) ==
    IF MagicCheck(kind, left, self) # NoExc
    THEN Outcome(BadMagic, nread, self, <<>>, <<>>, -1)
    ELSE IF ~Truth(kind, left)
    THEN Outcome(NoExc, nread, [self EXCEPT !.MagicNumber = FACE,
                                   !.HeaderType = DefaultHeaderType[cls]],
                 <<>>, <<>>, -1)
    ELSE IF cls = "XTFRawSerialHeader"
    THEN Outcome(AttributeError, nread, self, <<>>, <<>>, -1)
    ELSE Outcome(NoExc, nread, self, <<>>, <<>>, -1)

\* __init__ of a structure that is no packet: SNP0 and SNP1 check their ID.
PlainInit(cls, kind, left, nread, self) ==
    IF cls \in DOMAIN SnippetID
    THEN IF Truth(kind, left)
         THEN IF self.ID # SnippetID[cls]
              THEN Outcome(BadMagic, nread, self, <<>>, <<>>, -1)
              ELSE Outcome(NoExc, nread, self, <<>>, <<>>, -1)
         ELSE Outcome(NoExc, nread, [self EXCEPT !.ID = SnippetID[cls]],
                      <<>>, <<>>, -1)
    ELSE Outcome(NoExc, nread, self, <<>>, <<>>, -1)

\* The byte offset of a field in a structure with _pack_ = 1: the sizes of
\* the fields declared before it.
offsetof(fields, name) ==
    sizeof(SubSeq(fields, 1,
                  IndexOf([i \in 1..Len(fields) |-> fields[i][1]], name, 1)))

\* The fields of XTFPacketStart that every packet class declares again.
PreambleFields == {"MagicNumber", "HeaderType", "NumBytesThisRecord"}

\* The value a field of cls takes from the bytes of a packet: a field that
\* cls declares where XTFPacketStart has it takes the same bytes, and a
\* NumBytesThisRecord declared at byte 14 takes the word found there.
FieldFromBytes(cls, name, content) ==
    IF offsetof(Structures[cls], name) = offsetof(XTFPacketStart_fields, name)
    THEN content[name]
    ELSE content.Word14

\* cls.from_buffer_copy(b) of XTFBase.__new__: the preamble fields as cls
\* lays them out over the bytes.
from_buffer_copy(cls, content) ==
    IF cls \in PacketClasses
    THEN [content EXCEPT
             !.MagicNumber = FieldFromBytes(cls, "MagicNumber", content),
             !.HeaderType = FieldFromBytes(cls, "HeaderType", content),
             !.NumBytesThisRecord =
                 FieldFromBytes(cls, "NumBytesThisRecord", content)]
    ELSE content

\* cls(buffer) for a class that keeps XTFBase.__new__: the object is built
\* from the bytes read, or zero-filled, and then initialised.
BaseNew(new, cls, kind, left, content) ==
    IF new.exc # NoExc
    THEN Outcome(new.exc, new.nread, ZeroPacket, <<>>, <<>>, -1)
    ELSE IF cls \in PacketClasses
    THEN PacketInit(cls, kind, left, new.nread,
                    IF new.filled THEN from_buffer_copy(cls, content)
                    ELSE ZeroPacket)
    ELSE PlainInit(cls, kind, left, new.nread,
                   IF new.filled THEN content ELSE ZeroPacket)

XTFPacket(cls, kind, left, content) ==
    BaseNew(XTFBase_new(cls, kind, left), cls, kind, left, content)

\* cls(buffer, file_header) for every class but XTFFileHeader.
Decode(cls, kind, left, content, file_header) ==
    IF cls = "XTFPingHeader"
    THEN XTFPingHeader(kind, left, content, file_header)
    ELSE XTFPacket(cls, kind, left, content)

-----------------------------------------------------------------------------
(* Timestamps.                                                             *)

\* hasattr(self, name) for an object of class cls: name is one of its fields.
hasattr(cls, name) ==
    \E i \in 1..Len(Structures[cls]) : Structures[cls][i][1] = name

\* ValueError of date(year, month, day) for a date that does not exist.
DateError == "ValueError: date out of range"
\* AttributeError of reading a field the class does not have.
NoAttribute == "AttributeError: no such field"

\* An instant: whole days since 1970-01-01, the second of the day and the
\* microsecond of the second.
Instant(day, sec, us) ==
    [day |-> day + FloorDiv(sec + FloorDiv(us, 1000000), 86400),
     sec |-> (sec + FloorDiv(us, 1000000)) % 86400,
     us |-> us % 1000000]

\* No instant: the call raised.
NoTime == [day |-> 0, sec |-> 0, us |-> 0]

\* The leap years and month lengths of datetime.date.
is_leap(year) == year % 4 = 0 /\ (year % 100 # 0 \/ year % 400 = 0)

\* days_in_month without leap years.
days_in_month_NoLeap(year, month) ==
    IF month = 2 THEN 28
    ELSE IF month \in {4, 6, 9, 11} THEN 30 ELSE 31

days_in_month(year, month) ==
    IF month = 2 THEN (IF is_leap(year) THEN 29 ELSE 28)
    ELSE IF month \in {4, 6, 9, 11} THEN 30 ELSE 31

RECURSIVE days_before_month(_, _)
days_before_month(year, month) ==
    IF month <= 1 THEN 0
    ELSE days_before_month(year, month - 1) + days_in_month(year, month - 1)

\* date(year, month, day) raises ValueError outside these ranges.
date_ok(year, month, day) ==
    /\ year \in 1..9999
    /\ month \in 1..12
    /\ day \in 1..days_in_month(year, month)

\* (date(Year, Month, Day) - date(Year, 1, 1)).days
day_of_year(year, month, day) == days_before_month(year, month) + day - 1

\* np.datetime64(str(Year), 'Y') in days since 1970-01-01.
year_start(year) ==
    365 * (year - 1970) + FloorDiv(year - 1969, 4)
    - FloorDiv(year - 1901, 100) + FloorDiv(year - 1601, 400)

\* The sub-second fields added in the calendar branch of get_time, in
\* microseconds: HSeconds returns at once, Millisecond and Microsecond are
\* both added when the class has them.
HighRes(cls, self) ==
    IF hasattr(cls, "HSeconds") THEN self.HSeconds * 10 * 1000
    ELSE (IF hasattr(cls, "Millisecond") THEN self.Millisecond * 1000 ELSE 0)
         + (IF hasattr(cls, "Microsecond") THEN self.Microsecond ELSE 0)

\* The calendar branch of get_time.
CalendarTime(cls, self) ==
    IF ~hasattr(cls, "Year")
    THEN [exc |-> NoAttribute, time |-> NoTime]
    ELSE IF ~date_ok(self.Year, self.Month, self.Day)
    THEN [exc |-> DateError, time |-> NoTime]
    ELSE [exc |-> NoExc,
          time |-> Instant(year_start(self.Year)
                           + day_of_year(self.Year, self.Month, self.Day),
                           self.Hour * 3600 + self.Minute * 60 + self.Second,
                           HighRes(cls, self))]

\* get_time with the calendar fields preferred to SourceEpoch.
get_time_CalendarFirst(cls, self) ==
    IF hasattr(cls, "Year")
    THEN CalendarTime(cls, self)
    ELSE [exc |-> NoExc, time |-> Instant(0, self.SourceEpoch, 0)]

\* XTFPacket.get_time on an object self of class cls.
get_time(cls, self) ==
    IF hasattr(cls, "SourceEpoch") /\ self.SourceEpoch # 0
    THEN IF hasattr(cls, "EpochMicroseconds") /\ self.EpochMicroseconds # 0
         THEN [exc |-> NoExc,
               time |-> Instant(0, self.SourceEpoch, self.EpochMicroseconds)]
         ELSE [exc |-> NoExc, time |-> Instant(0, self.SourceEpoch, 0)]
    ELSE CalendarTime(cls, self)

-----------------------------------------------------------------------------
(* Inputs: what the bytes of a source encode.                              *)

\* Size of a source that holds every byte a decode can ask for.
Complete == 4096

\* The ChanInfo tables whose first nvar slots hold descriptors of descs, the
\* other slots zero-filled.
ChanTables(descs, nvar) ==
    { [i \in 1..NumChanInfo |-> IF i <= nvar THEN d[i] ELSE ZeroChanInfo] :
      d \in [1..nvar -> descs] }

\* The values of the four counters other than the sonar and bathymetry ones.
OtherCounts == {0, 1}

\* Descriptors of every channel type and of type 4, which is no
\* XTFChannelType.
TypedDescs ==
    { [TypeOfChannel |-> t, BytesPerSample |-> 1, Reserved |-> 0] : t \in 0..4 }

\* File headers of the file header specification.
FileHeaderInputs ==
    { [NumberOfSonarChannels |-> c[1],
       NumberOfBathymetryChannels |-> c[2],
       NumberOfSnippetChannels |-> c[3],
       NumberOfForwardLookArrays |-> c[4],
       NumberOfEchoStrengthChannels |-> c[5],
       NumberOfInterferometryChannels |-> c[6],
       ChanInfo |-> t] :
      c \in (0..MaxCount) \X (0..MaxCount) \X OtherCounts \X OtherCounts
            \X OtherCounts \X OtherCounts,
      t \in ChanTables(TypedDescs, MaxVaried) }

\* No outcome yet.
NoResult ==
    [op |-> "", cls |-> "", exc |-> NoExc, returned |-> FALSE, nread |-> 0,
     record |-> ZeroPacket, chans |-> <<>>, data |-> <<>>, bathy_read |-> -1,
     passed |-> None, decoder |-> "", variant |-> "", time |-> NoTime,
     member |-> NoMember]

-----------------------------------------------------------------------------
(* Parsing the file header.                                                *)

TypeOK ==
    /\ stream.kind \in {"stream", "bytes", "bytearray", "module"}
    /\ stream.size \in Nat
    /\ pos \in 0..stream.size
    /\ header.is_none \in BOOLEAN
    /\ result.returned \in BOOLEAN

InitFileHeader ==
    /\ stream \in { [kind |-> "stream", size |-> SizeOf["XTFFileHeader"],
                     cls |-> "XTFFileHeader", fh |-> h, pkt |-> ZeroPacket] :
                    h \in FileHeaderInputs }
    /\ pos = 0
    /\ header = None
    /\ result = NoResult

\* The outcome r of XTFFileHeader(buffer) as the value of `result'.
HeaderResult(r) ==
    [NoResult EXCEPT !.op = "XTFFileHeader", !.cls = "XTFFileHeader",
        !.exc = r.exc, !.returned = (r.exc = NoExc), !.nread = r.nread,
        !.passed = r.obj]

\* header = XTFFileHeader(buffer) at the start of the source.
ParseFileHeader ==
    /\ pos = 0
    /\ result.op = ""
    /\ stream.cls = "XTFFileHeader"
    /\ result' = HeaderResult(XTFFileHeader(stream.kind, stream.size - pos,
                                            stream.fh))
    /\ header' = result'.passed
    /\ pos' = pos + result'.nread
    /\ UNCHANGED stream

NextFileHeader == ParseFileHeader

SpecFileHeader == InitFileHeader /\ [][NextFileHeader]_vars

-----------------------------------------------------------------------------
(* Decoding a ping.                                                        *)

\* The other value of the magic field: the two bytes of 0xFACE swapped.
CEFA == 206 * 256 + 250

\* Descriptors of the ping specification: a port channel of 1-byte samples
\* without legacy count, a starboard channel of 2-byte samples with legacy
\* count 1, a bathymetry channel.
PingDescs ==
    { [TypeOfChannel |-> XTFChannelType["port"], BytesPerSample |-> 1, Reserved |-> 0],
      [TypeOfChannel |-> XTFChannelType["stbd"], BytesPerSample |-> 2, Reserved |-> 1],
      [TypeOfChannel |-> XTFChannelType["bathy"], BytesPerSample |-> 1, Reserved |-> 0] }

\* File headers of the ping specification: MaxChans channels.
PingFileHeaders ==
    { [ZeroFileHeader EXCEPT !.NumberOfSonarChannels = MaxChans, !.ChanInfo = t] :
      t \in ChanTables(PingDescs, MaxChans) }

PH == SizeOf["XTFPingHeader"]
CH == SizeOf["XTFPingChanHeader"]
XYZA == SizeOf["XTFBeamXYZA"]

\* NumBytesThisRecord of a sonar ping: smaller than the ping header, one byte
\* less than the two headers, and the two headers with 0..MaxPayload bytes.
SonarSizes == {0, PH + CH - 1} \cup { PH + CH + k : k \in 0..MaxPayload }

\* NumBytesThisRecord of another ping: smaller than the ping header, and the
\* header with 0..MaxBeams beam records and 0 or 1 byte more.
BathySizes == {0} \cup { PH + XYZA * b + r : b \in 0..MaxBeams, r \in {0, 1} }

\* Sonar pings: NumSamples[k] is the NumSamples of the k-th sub-header.
SonarPings(magics, sizes) ==
    UNION { { [MagicNumber |-> m, HeaderType |-> XTFHeaderType.sonar,
               NumChansToFollow |-> n, NumBytesThisRecord |-> b,
               NumSamples |-> s, ID |-> 0, StringSize |-> 0, Word14 |-> 0] :
              m \in magics, b \in sizes, s \in [1..n -> 0..MaxSamples] } :
            n \in 0..MaxChans }

\* Pings of the bathymetry header types and of a header type the ping decoder
\* does not know.
OtherPings(magics, sizes) ==
    { [MagicNumber |-> m, HeaderType |-> t, NumChansToFollow |-> 0,
       NumBytesThisRecord |-> b, NumSamples |-> <<>>, ID |-> 0,
       StringSize |-> 0, Word14 |-> 0] :
      m \in magics, b \in sizes,
      t \in bathy_header_types \cup {XTFHeaderType.elac} }

\* Sizes of a source that ends before the packet does.
ShortSizes == {0, PH - 1, PH, PH + 1, PH + CH - 1, PH + CH, PH + CH + 1}

\* The packets of the ping specification with the number of bytes the source
\* holds for them: every packet in a complete source, and the packets with a
\* good magic number and the largest frame length in a source cut short.
PingInputs ==
    ((SonarPings({FACE, CEFA}, SonarSizes) \cup OtherPings({FACE, CEFA}, BathySizes))
        \X {Complete})
    \cup
    ((SonarPings({FACE}, {PH + CH + MaxPayload})
        \cup OtherPings({FACE}, {PH + XYZA * MaxBeams, PH + XYZA * MaxBeams + 1}))
        \X ShortSizes)

\* The source holds a complete file header, which has been parsed, and then
\* the bytes of one packet.
InitPing ==
    /\ \E h \in PingFileHeaders, p \in PingInputs :
         LET size == SizeOf["XTFFileHeader"] + p[2]
             r == XTFFileHeader("stream", size, h)
         IN  /\ stream = [kind |-> "stream", size |-> size,
                          cls |-> "XTFPingHeader", fh |-> h, pkt |-> p[1]]
             /\ pos = r.nread
             /\ header = r.obj
    /\ result = NoResult

\* The file_header argument of a constructor call: the packet classes take
\* one, which may be left out.
Passed(cls) == IF cls \in PacketClasses THEN {header, None} ELSE {None}

\* The outcome r of an operation op as the value of `result'.
Result(op, r, passed, decoder, variant) ==
    [op |-> op, cls |-> decoder, exc |-> r.exc, returned |-> (r.exc = NoExc),
     nread |-> r.nread, record |-> r.record, chans |-> r.chans,
     data |-> r.data, bathy_read |-> r.bathy_read, passed |-> passed,
     decoder |-> decoder, variant |-> variant, time |-> NoTime,
     member |-> NoMember]

\* obj = cls(buffer, file_header) for the class the source is read as.
Construct ==
    /\ result.op = ""
    /\ stream.cls # "XTFFileHeader"
    /\ \E passed \in Passed(stream.cls) :
         result' = Result("Construct",
                          Decode(stream.cls, stream.kind, stream.size - pos,
                                 stream.pkt, passed),
                          passed, stream.cls, "")
    /\ pos' = pos + result'.nread
    /\ UNCHANGED <<stream, header>>

NextPing == Construct

SpecPing == InitPing /\ [][NextPing]_vars

-----------------------------------------------------------------------------
(* Constructing any structure from any byte source.                        *)

\* The classes a source is read as.
ConstructClasses ==
    PacketClasses \cup PlainClasses \cup DOMAIN SnippetID \cup {"XTFFileHeader"}

\* File headers of the construction specification: one sonar channel, and
\* seven.
ConstructFileHeaders ==
    { [ZeroFileHeader EXCEPT !.NumberOfSonarChannels = n,
          !.ChanInfo = [i \in 1..NumChanInfo |->
              [TypeOfChannel |-> XTFChannelType["port"], BytesPerSample |-> 1,
               Reserved |-> 0]]] :
      n \in {1, NumChanInfo + 1} }

\* Packets of the construction specification; StringSize is the field of a
\* raw serial header.
ConstructPackets ==
    { [MagicNumber |-> m, HeaderType |-> t, NumChansToFollow |-> n,
       NumBytesThisRecord |-> PH + CH + MaxPayload,
       NumSamples |-> [k \in 1..n |-> 1], ID |-> SnippetID[i],
       StringSize |-> z, Word14 |-> 0] :
      m \in {FACE, CEFA}, z \in {0, MaxPayload},
      t \in {XTFHeaderType.sonar, XTFHeaderType.bathy_xyza, XTFHeaderType.elac},
      n \in {0, 1}, i \in DOMAIN SnippetID }

\* The source is an io object, a bytes or a bytearray; it holds no byte, one
\* byte, one byte less than the structure, the structure, or more.
InitConstruct ==
    /\ \E cls \in ConstructClasses, kind \in {"stream", "bytes", "bytearray"},
          h \in ConstructFileHeaders, p \in ConstructPackets :
         \E size \in {0, 1, SizeOf[cls] - 1, SizeOf[cls], Complete} :
           /\ stream = [kind |-> kind, size |-> size, cls |-> cls, fh |-> h,
                        pkt |-> p]
           /\ header = IF cls = "XTFFileHeader" THEN None
                       ELSE XTFFileHeader("stream", Complete, h).obj
    /\ pos = 0
    /\ result = NoResult

NextConstruct == ParseFileHeader \/ Construct

SpecConstruct == InitConstruct /\ [][NextConstruct]_vars

-----------------------------------------------------------------------------
(* Reading a packet of any header type.                                    *)

\* XTFPacketClasses.get(tag): "" stands for no class.
PacketClass(tag) ==
    IF tag \in DOMAIN XTFPacketClasses THEN XTFPacketClasses[tag] ELSE ""

\* The reader of one packet after XTFPacketStart has framed it: the class of
\* the header type decodes the frame from its start; a header type without
\* class gives an Unknown record that holds the preamble.
Dispatch(p_start, kind, left, content, file_header) ==
    IF p_start.exc # NoExc
    THEN Result("ReadPacket", p_start, file_header, "", "")
    ELSE IF PacketClass(p_start.record.HeaderType) = ""
    THEN Result("ReadPacket", p_start, file_header, "", "Unknown")
    ELSE Result("ReadPacket",
                Decode(PacketClass(p_start.record.HeaderType), kind, left,
                       content, file_header),
                file_header, PacketClass(p_start.record.HeaderType),
                PacketClass(p_start.record.HeaderType))

\* Every header type, either magic number, a frame length of nothing, of the
\* preamble and of a ping; the word at byte 14 is zero or the size of a ping
\* header; the source holds no byte, one byte less than the
\* preamble, or every byte asked for.
InitDispatch ==
    /\ \E t \in 0..255, m \in {FACE, CEFA}, w \in {0, PH},
          b \in {0, SizeOf["XTFPacketStart"], PH + CH + MaxPayload},
          size \in {0, SizeOf["XTFPacketStart"] - 1, Complete},
          h \in ConstructFileHeaders :
         /\ stream = [kind |-> "stream", size |-> size, cls |-> "", fh |-> h,
                      pkt |-> [ZeroPacket EXCEPT !.MagicNumber = m,
                                  !.HeaderType = t, !.NumBytesThisRecord = b,
                                  !.Word14 = w]]
         /\ header = XTFFileHeader("stream", Complete, h).obj
    /\ pos = 0
    /\ result = NoResult

\* The reader frames the next packet and decodes it.
ReadPacket ==
    /\ result.op = ""
    /\ stream.cls = ""
    /\ result' = Dispatch(XTFPacket("XTFPacketStart", stream.kind,
                                    stream.size - pos, stream.pkt),
                          stream.kind, stream.size - pos, stream.pkt, header)
    /\ pos' = pos + result'.nread
    /\ UNCHANGED <<stream, header>>

NextDispatch == ReadPacket

SpecDispatch == InitDispatch /\ [][NextDispatch]_vars

-----------------------------------------------------------------------------
(* Asking a packet for its time.                                           *)

\* The fields get_time reads, all zero.
ZeroClock ==
    [SourceEpoch |-> 0, EpochMicroseconds |-> 0, Year |-> 0, Month |-> 0,
     Day |-> 0, Hour |-> 0, Minute |-> 0, Second |-> 0, HSeconds |-> 0,
     Millisecond |-> 0, Microsecond |-> 0]

\* The values a field of class cls takes: the given ones if the class has
\* the field, else zero, which is never read.
FieldValues(cls, name, values) == IF hasattr(cls, name) THEN values ELSE {0}

\* Years before the epoch, leap, common, common though divisible by 4, and
\* after the last year of datetime.date.
Years == {1969, 2020, 2021, 2100, 10000}

\* The objects of class cls the time specification asks for their time:
\* epochs of zero, one second and 2020-03-01, months and days inside and
\* outside the calendar.
Clocks(cls) ==
    { [SourceEpoch |-> e, EpochMicroseconds |-> eu, Year |-> y, Month |-> mo,
       Day |-> d, Hour |-> h, Minute |-> mi, Second |-> s, HSeconds |-> hs,
       Millisecond |-> ms, Microsecond |-> us] :
      e \in FieldValues(cls, "SourceEpoch", {0, 1, 1583020800}),
      eu \in FieldValues(cls, "EpochMicroseconds", {0, 1500000}),
      y \in FieldValues(cls, "Year", Years),
      mo \in FieldValues(cls, "Month", {0, 1, 2, 3, 12, 13}),
      d \in FieldValues(cls, "Day", {1, 28, 29, 30, 31, 32}),
      h \in FieldValues(cls, "Hour", {0, 23}),
      mi \in FieldValues(cls, "Minute", {0, 59}),
      s \in FieldValues(cls, "Second", {0, 59}),
      hs \in FieldValues(cls, "HSeconds", {0, 50, 99}),
      ms \in FieldValues(cls, "Millisecond", {0, 999}),
      us \in FieldValues(cls, "Microsecond", {0, 5}) }

\* A packet object of any packet class has been built.
InitTime ==
    /\ \E cls \in PacketClasses :
         \E f \in Clocks(cls) :
           /\ stream = [kind |-> "stream", size |-> SizeOf[cls], cls |-> cls,
                        fh |-> ZeroFileHeader, pkt |-> f]
           /\ pos = SizeOf[cls]
    /\ header = None
    /\ result = NoResult

\* The outcome r of get_time as the value of `result'.
TimeResult(cls, r) ==
    [NoResult EXCEPT !.op = "get_time", !.cls = cls, !.decoder = cls,
        !.exc = r.exc, !.returned = (r.exc = NoExc), !.time = r.time]

\* t = obj.get_time()
GetTime ==
    /\ result.op = ""
    /\ stream.cls \in PacketClasses
    /\ result' = TimeResult(stream.cls, get_time(stream.cls, stream.pkt))
    /\ UNCHANGED <<stream, pos, header>>

NextTime == GetTime

SpecTime == InitTime /\ [][NextTime]_vars

-----------------------------------------------------------------------------
(* Loading the module and reading an enumeration member.                   *)

\* The module is about to be loaded; a member (the k-th of its enumeration)
\* will be read.
InitEnum ==
    /\ \E en \in DOMAIN AutoEnumNames :
         \E k \in 1..Len(AutoEnumNames[en]) :
           stream = [kind |-> "module", size |-> 0, cls |-> en,
                     fh |-> ZeroFileHeader, pkt |-> ZeroPacket, k |-> k,
                     name |-> AutoEnumNames[en][k]]
    /\ pos = 0
    /\ header = None
    /\ result = NoResult

\* import: the statement after the enumerations compares the member
\* XTFSonarType.fsi_hms6x5, an integer, with 69.
LoadModule ==
    /\ result.op = ""
    /\ stream.kind = "module"
    /\ result' = [NoResult EXCEPT !.op = "import",
                      !.exc = IF int_new(XTFSonarType_names)["fsi_hms6x5"] # 69
                              THEN NoExc ELSE EndsIncorrect,
                      !.returned =
                          (int_new(XTFSonarType_names)["fsi_hms6x5"] # 69)]
    /\ UNCHANGED <<stream, pos, header>>

\* m = Enumeration.name: the member's value and int(m).
ReadMember ==
    /\ result.op = "import"
    /\ result.returned
    /\ result' = [NoResult EXCEPT !.op = "member", !.cls = stream.cls,
                      !.returned = TRUE,
                      !.member =
                          [value |-> AutoIntEnum(AutoEnumNames[stream.cls])
                                        [stream.name],
                           number |-> int_new(AutoEnumNames[stream.cls])
                                        [stream.name]]]
    /\ UNCHANGED <<stream, pos, header>>

NextEnum == LoadModule \/ ReadMember

SpecEnum == InitEnum /\ [][NextEnum]_vars

-----------------------------------------------------------------------------
(* Decoding packets that share one file header.                            *)

\* The number of decodes made with one file header.
MaxDecodes == 2

\* SharedAfter for a decoder that clears the channel count it has used.
SharedAfter_Consumed(cls, file_header) ==
    [file_header EXCEPT !.fields.NumberOfSonarChannels = 0]

\* The file header object after cls(buffer, file_header) or get_time: the
\* constructors read file_header.sonar_info[i].Reserved and BytesPerSample
\* and assign to nothing of it, and get_time has no file header.
SharedAfter(cls, file_header) == file_header

\* File headers of two channels.
SharedFileHeaders ==
    { [ZeroFileHeader EXCEPT !.NumberOfSonarChannels = 2, !.ChanInfo = t] :
      t \in ChanTables(PingDescs, 2) }

\* Packets decoded with the shared file header: sonar pings of no, one and
\* two channels of no, one or two samples each, and the other pings.
SharedPackets ==
    { [ZeroPacket EXCEPT !.MagicNumber = m, !.NumChansToFollow = n,
          !.HeaderType = XTFHeaderType.sonar,
          !.NumBytesThisRecord = PH + CH + 4,
          !.NumSamples = [k \in 1..n |-> v]] :
      m \in {FACE, CEFA}, n \in 0..2, v \in 0..2 }
    \cup
    { [ZeroPacket EXCEPT !.MagicNumber = FACE, !.HeaderType = t,
          !.NumBytesThisRecord = PH + XYZA] :
      t \in bathy_header_types \cup {XTFHeaderType.elac} }

\* The objects asked for their time: a date that exists, and one that does
\* not.
SharedClocks ==
    { [ZeroClock EXCEPT !.Year = 2020, !.Month = 2, !.Day = d] : d \in {29, 30} }

\* The file header has been parsed; no packet has been decoded with it.
InitShared ==
    /\ \E h \in SharedFileHeaders :
         /\ stream = [kind |-> "stream", size |-> Complete,
                      cls |-> "XTFPingHeader", fh |-> h, pkt |-> ZeroPacket,
                      decodes |-> 0]
         /\ header = XTFFileHeader("stream", SizeOf["XTFFileHeader"], h).obj
    /\ pos = 0
    /\ result = NoResult

\* obj = cls(buffer, file_header) on a source of its own that holds the
\* packet p, whole or cut short, with the shared file header.
DecodeShared ==
    /\ stream.decodes < MaxDecodes
    /\ \E p \in SharedPackets, size \in {PH + CH + 1, Complete},
          cls \in {"XTFPingHeader", "XTFNotesHeader"} :
         /\ stream' = [stream EXCEPT !.size = size, !.cls = cls, !.pkt = p,
                          !.decodes = @ + 1]
         /\ result' = Result("Construct",
                             Decode(cls, "stream", size, p, header),
                             header, cls, "")
         /\ header' = SharedAfter(cls, header)
    /\ pos' = result'.nread

\* t = obj.get_time() on a decoded packet.
TimeShared ==
    /\ result.op = "Construct"
    /\ result.returned
    /\ \E f \in SharedClocks :
         result' = [TimeResult(result.cls, get_time(result.cls, f))
                       EXCEPT !.passed = result.passed]
    /\ header' = SharedAfter(result.cls, header)
    /\ UNCHANGED <<stream, pos>>

NextShared == DecodeShared \/ TimeShared

SpecShared == InitShared /\ [][NextShared]_vars

-----------------------------------------------------------------------------
(* Properties of the sonar ping decode.                                    *)

\* A state after XTFPingHeader(buffer, file_header) with a file header.
PingDecoded ==
    /\ result.op = "Construct"
    /\ result.cls = "XTFPingHeader"
    /\ ~result.passed.is_none

\* The sample count the sub-header and the descriptor of channel i (counted
\* from 1) call for.
ExpectedSamples(i) ==
    IF stream.pkt.NumSamples[i] > 0
    THEN stream.pkt.NumSamples[i]
    ELSE result.passed.sonar_info[i].Reserved

\* The sample bytes channel i calls for.
ExpectedBytes(i) == ExpectedSamples(i) * result.passed.sonar_info[i].BytesPerSample

\* C1: in every channel iteration that has read its sub-header and has a
\* descriptor sonar_info[i], the sample count used is the sub-header's
\* NumSamples if that is positive and the descriptor's Reserved otherwise,
\* and the bytes asked of the source for the samples are that count times the
\* descriptor's BytesPerSample; a decode that returns has done so for every
\* channel below NumChansToFollow.
C1_SampleCountResolution ==
    PingDecoded =>
        /\ \A i \in 1..Len(result.chans) :
             (result.chans[i].appended /\ i <= Len(result.passed.sonar_info)) =>
                /\ result.chans[i].n_samples = ExpectedSamples(i)
                /\ result.chans[i].n_bytes = ExpectedBytes(i)
                /\ result.chans[i].requested \in {-1, ExpectedBytes(i)}
        /\ (result.returned /\ stream.pkt.HeaderType = XTFHeaderType.sonar) =>
             /\ Len(result.chans) = stream.pkt.NumChansToFollow
             /\ \A i \in 1..Len(result.chans) :
                  result.chans[i].requested = ExpectedBytes(i)

\* A returned ping with a channel that used the legacy count and a channel
\* that used a NumSamples different from its legacy count.
C1_Witness ==
    /\ PingDecoded
    /\ result.returned
    /\ \E i, j \in 1..Len(result.chans) :
         /\ stream.pkt.NumSamples[i] = 0
         /\ result.chans[i].n_samples > 0
         /\ result.chans[i].requested = 2 * result.chans[i].n_samples
         /\ stream.pkt.NumSamples[j] > 0
         /\ result.passed.sonar_info[j].Reserved # stream.pkt.NumSamples[j]
         /\ result.passed.sonar_info[j].Reserved > 0
         /\ result.chans[j].n_samples = stream.pkt.NumSamples[j]

\* The bytes a ping decode has taken from the source when iteration i stops
\* before its samples are read: the ping header, the sub-headers up to i and
\* the samples of the channels before i.
RECURSIVE ReadBefore(_, _)
ReadBefore(chans, i) ==
    IF i = 0 THEN SizeOf["XTFPingHeader"]
    ELSE ReadBefore(chans, i - 1) + chans[i].header_read
         + (IF i < Len(chans) THEN chans[i].samples ELSE 0)

\* C2: in every channel iteration that has read its sub-header and has a
\* descriptor, if the sample bytes exceed NumBytesThisRecord less the sizes of
\* XTFPingHeader and XTFPingChanHeader, the decode raises 'Number of bytes to
\* read exceeds ...' in that iteration and no sample byte of the channel has
\* been read, whatever NumBytesThisRecord is.
C2_BoundCheck ==
    PingDecoded =>
        \A i \in 1..Len(result.chans) :
            (/\ result.chans[i].appended
             /\ i <= Len(result.passed.sonar_info)
             /\ ExpectedBytes(i) > stream.pkt.NumBytesThisRecord
                                   - SizeOf["XTFPingHeader"]
                                   - SizeOf["XTFPingChanHeader"]) =>
                /\ result.exc = ExceedsRemaining
                /\ i = Len(result.chans)
                /\ result.chans[i].requested = -1
                /\ result.chans[i].samples = -1
                /\ result.nread = ReadBefore(result.chans, i)

\* The bound check has failed a channel of a frame that is shorter than the
\* two headers.
C2_Witness ==
    /\ PingDecoded
    /\ result.exc = ExceedsRemaining
    /\ stream.pkt.NumBytesThisRecord
         < SizeOf["XTFPingHeader"] + SizeOf["XTFPingChanHeader"]
    /\ Len(result.chans) >= 1
    /\ result.chans[Len(result.chans)].n_bytes >= 0

\* C3 as claimed: a sonar ping decode takes at most NumBytesThisRecord bytes
\* from the source, whether it returns or raises.
C3_NeverReadsPastFrame ==
    (PingDecoded /\ stream.pkt.HeaderType = XTFHeaderType.sonar) =>
        result.nread <= stream.pkt.NumBytesThisRecord

\* C10 as claimed: a bathy_xyza ping is decoded only if its block of
\* NumBytesThisRecord - sizeof(XTFPingHeader) bytes is a whole number of beam
\* records, and then it holds that number of records.
C10_WholeBeamRecords ==
    (/\ PingDecoded
     /\ stream.pkt.HeaderType = XTFHeaderType.bathy_xyza
     /\ result.returned) =>
        /\ (stream.pkt.NumBytesThisRecord - SizeOf["XTFPingHeader"])
              % SizeOf["XTFBeamXYZA"] = 0
        /\ Len(result.data) * SizeOf["XTFBeamXYZA"]
              = stream.pkt.NumBytesThisRecord - SizeOf["XTFPingHeader"]

-----------------------------------------------------------------------------
(* Properties of the constructors.                                         *)

\* C4 as claimed: a packet class built from an io source that holds every
\* byte asked for and whose magic number is not 0xFACE raises the magic
\* number error, whatever the other fields hold.
C4_MagicValidation ==
    (/\ result.op = "Construct"
     /\ result.cls \in PacketClasses
     /\ result.cls = "XTFPingHeader" => ~result.passed.is_none
     /\ stream.kind = "stream"
     /\ stream.size = Complete
     /\ stream.pkt.MagicNumber # FACE) =>
        result.exc = BadMagic

\* The exceptions that tell of a source shorter than the structure.
TruncatedInput == {EndHit, BufferTooSmall}

\* C7 as claimed: a structure built from a source that holds fewer bytes than
\* the structure's size, an empty bytes or bytearray included, raises a
\* truncated input error.
C7_TruncatedRead ==
    (/\ result.op \in {"Construct", "XTFFileHeader"}
     /\ stream.size < SizeOf[stream.cls]) =>
        result.exc \in TruncatedInput

-----------------------------------------------------------------------------
(* Properties of the routing table.                                        *)

\* A state after the reader has framed a packet with a good magic number
\* from a source that holds the preamble.
Framed ==
    /\ result.op = "ReadPacket"
    /\ stream.pkt.MagicNumber = FACE
    /\ stream.size >= SizeOf["XTFPacketStart"]

\* C5: a frame with magic number 0xFACE whose header type has no entry in
\* XTFPacketClasses gives an Unknown record that holds the frame's header
\* type and NumBytesThisRecord, and no exception.
C5_UnknownTagNotAnError ==
    (Framed /\ stream.pkt.HeaderType \notin DOMAIN XTFPacketClasses) =>
        /\ result.exc = NoExc
        /\ result.returned
        /\ result.variant = "Unknown"
        /\ result.record.HeaderType = stream.pkt.HeaderType
        /\ result.record.NumBytesThisRecord = stream.pkt.NumBytesThisRecord

\* An Unknown record of a header type that XTFHeaderType names and of one it
\* does not name, with a frame length to skip.
C5_Witness ==
    /\ Framed
    /\ result.variant = "Unknown"
    /\ result.record.HeaderType \in {XTFHeaderType.elac, 255}
    /\ result.record.NumBytesThisRecord > SizeOf["XTFPacketStart"]

\* The routing table of the format: header type to decoder.
RoutingTable ==
    (0 :> "XTFPingHeader") @@ (2 :> "XTFPingHeader") @@ (17 :> "XTFPingHeader")
    @@ (23 :> "XTFHeaderGyro") @@ (84 :> "XTFHeaderGyro")
    @@ (1 :> "XTFNotesHeader") @@ (3 :> "XTFAttitudeData")
    @@ (6 :> "XTFRawSerialHeader") @@ (15 :> "XTFHighSpeedSensor")
    @@ (26 :> "XTFQPSSingleBeam") @@ (42 :> "XTFHeaderNavigation")
    @@ (107 :> "XTFPosRawNavigation") @@ (199 :> "XTFRawCustomHeader")

\* C6: the class that decodes a framed packet is the one the routing table
\* gives for its header type, and a header type outside the table's thirteen
\* keys has no class.
C6_RoutingTable ==
    Framed =>
        /\ result.decoder = IF stream.pkt.HeaderType \in DOMAIN RoutingTable
                            THEN RoutingTable[stream.pkt.HeaderType]
                            ELSE ""
        /\ (stream.pkt.HeaderType \in
               {0, 1, 2, 3, 6, 15, 17, 23, 26, 42, 84, 107, 199})
           <=> (result.decoder # "")

\* The second gyro header type has reached the gyro decoder.
C6_Witness ==
    /\ Framed
    /\ stream.pkt.HeaderType = 84
    /\ result.decoder = "XTFHeaderGyro"
    /\ result.returned

-----------------------------------------------------------------------------
(* Properties of the file header.                                          *)

\* The sum of the six channel counters of the header the source encodes.
CounterSum ==
    stream.fh.NumberOfSonarChannels + stream.fh.NumberOfBathymetryChannels
    + stream.fh.NumberOfSnippetChannels + stream.fh.NumberOfForwardLookArrays
    + stream.fh.NumberOfEchoStrengthChannels
    + stream.fh.NumberOfInterferometryChannels

\* The slots among the first n whose channel type is in types.
SlotsOf(types, n) ==
    { i \in 1..Min(n, NumChanInfo) : stream.fh.ChanInfo[i].TypeOfChannel \in types }

\* view holds the descriptors of the slots in slots, in slot order.
IsViewOf(view, slots) ==
    /\ Len(view) = Cardinality(slots)
    /\ \A i \in slots :
         view[Cardinality({ j \in slots : j < i }) + 1] = stream.fh.ChanInfo[i]

C9_DerivedChannelViews ==
    (result.op = "XTFFileHeader" /\ result.returned) =>
        /\ channel_count(header.fields) = CounterSum
        /\ CounterSum <= NumChanInfo =>
             /\ IsViewOf(header.sonar_info, SlotsOf({0, 1, 2}, CounterSum))
             /\ IsViewOf(header.bathy_info, SlotsOf({3}, CounterSum))

\* A parsed header of three channels, one counted as interferometry: a
\* starboard channel, a bathymetry channel and a port channel, with a
\* subbottom descriptor in the slot after them.
C9_Witness ==
    /\ result.op = "XTFFileHeader"
    /\ result.returned
    /\ CounterSum = 3
    /\ header.fields.NumberOfInterferometryChannels = 1
    /\ header.fields.ChanInfo[1].TypeOfChannel = 2
    /\ header.fields.ChanInfo[2].TypeOfChannel = 3
    /\ header.fields.ChanInfo[3].TypeOfChannel = 1
    /\ header.fields.ChanInfo[4].TypeOfChannel = 0
    /\ Len(header.sonar_info) = 2
    /\ header.sonar_info[1].TypeOfChannel = 2
    /\ Len(header.bathy_info) = 1

-----------------------------------------------------------------------------
(* Properties of the payload reads.                                        *)

\* The exceptions that tell of a source that ends before the payload does.
PayloadTruncated == {EndHit, BufferTooSmall, FileEnded, DataMissing}

\* The bytes the source holds for the packet.
PacketBytes == stream.size - SizeOf["XTFFileHeader"]

\* A state after the ping decoder has decoded a ping of a bathymetry type.
BathyDecoded ==
    /\ PingDecoded
    /\ stream.pkt.HeaderType \in bathy_header_types

\* C11 as claimed: a decode of a bathymetry ping that returns has taken
\* exactly NumBytesThisRecord bytes from the source, of which
\* NumBytesThisRecord - sizeof(XTFPingHeader) are the block; a source that
\* holds fewer bytes than the frame makes the decode raise a truncated input
\* error; and no decode takes more than NumBytesThisRecord bytes.
C11_BathyBlockExtent ==
    BathyDecoded =>
        /\ result.returned =>
              /\ result.nread = stream.pkt.NumBytesThisRecord
              /\ result.bathy_read
                    = stream.pkt.NumBytesThisRecord - SizeOf["XTFPingHeader"]
        /\ PacketBytes < stream.pkt.NumBytesThisRecord =>
              result.exc \in PayloadTruncated
        /\ result.nread <= stream.pkt.NumBytesThisRecord

\* C12 as claimed: in every channel iteration that has passed the bound
\* check and read from the source, fewer bytes than n_bytes make the decode
\* raise a truncated input error, and a decode that returns has an array of
\* exactly n_samples elements for the channel.
C12_SampleShortRead ==
    (PingDecoded /\ stream.pkt.HeaderType = XTFHeaderType.sonar) =>
        \A i \in 1..Len(result.chans) :
            result.chans[i].requested >= 0 =>
                /\ result.chans[i].samples < result.chans[i].n_bytes =>
                      result.exc \in PayloadTruncated
                /\ result.returned =>
                      result.chans[i].length = result.chans[i].n_samples

\* A state after XTFRawSerialHeader(buffer) on an io source that holds the
\* fixed part of a raw serial packet with magic number 0xFACE.
RawSerialDecoded ==
    /\ result.op = "Construct"
    /\ result.cls = "XTFRawSerialHeader"
    /\ stream.kind = "stream"
    /\ stream.pkt.MagicNumber = FACE
    /\ stream.size >= SizeOf["XTFRawSerialHeader"]

\* C13 as claimed: a raw serial decode from a source that holds the fixed
\* part and StringSize bytes after it returns, having taken the fixed part
\* and the StringSize bytes of RawAsciiData; with fewer than StringSize
\* bytes after the fixed part it raises a truncated input error.
C13_RawSerialPayload ==
    RawSerialDecoded =>
        IF stream.size >= SizeOf["XTFRawSerialHeader"] + stream.pkt.StringSize
        THEN /\ result.returned
             /\ result.nread
                   = SizeOf["XTFRawSerialHeader"] + stream.pkt.StringSize
        ELSE result.exc \in PayloadTruncated

-----------------------------------------------------------------------------
(* Properties of get_time.                                                 *)

\* A state after get_time was called.
TimeAsked == result.op = "get_time"

\* The object has a SourceEpoch field that is not zero.
HasEpoch ==
    hasattr(stream.cls, "SourceEpoch") /\ stream.pkt.SourceEpoch # 0

\* The object has, besides, an EpochMicroseconds field that is not zero.
HasEpochMicros ==
    /\ HasEpoch
    /\ hasattr(stream.cls, "EpochMicroseconds")
    /\ stream.pkt.EpochMicroseconds # 0

\* The microseconds one of the sub-second fields of the object may add.
SubSecondOffsets ==
    {0, stream.pkt.HSeconds * 10000, stream.pkt.Millisecond * 1000,
     stream.pkt.Microsecond}

\* The number of days from 1970-01-01 to a date of the Gregorian calendar,
\* counted in eras of 400 years that begin on 1 March.
CivilDays(year, month, day) ==
    LET y == IF month <= 2 THEN year - 1 ELSE year
        era == FloorDiv(y, 400)
        yoe == y - era * 400
        doy == (153 * (month + (IF month > 2 THEN -3 ELSE 9)) + 2) \div 5
               + day - 1
    IN  era * 146097 + yoe * 365 + yoe \div 4 - yoe \div 100 + doy - 719468

\* The lengths of the months of a common year.
MonthLengths == <<31, 28, 31, 30, 31, 30, 31, 31, 30, 31, 30, 31>>

\* The date exists in the Gregorian calendar.
GregorianDate(year, month, day) ==
    /\ month \in 1..12
    /\ day >= 1
    /\ day <= MonthLengths[month]
              + (IF month = 2 /\ year % 4 = 0
                    /\ (year % 100 # 0 \/ year % 400 = 0) THEN 1 ELSE 0)

\* The second of the day the calendar fields of the object give.
ClockSeconds ==
    stream.pkt.Hour * 3600 + stream.pkt.Minute * 60 + stream.pkt.Second

\* The instant the calendar fields give, with us microseconds more.
CalendarInstant(us) ==
    Instant(CivilDays(stream.pkt.Year, stream.pkt.Month, stream.pkt.Day),
            ClockSeconds, us)

\* C14: with a SourceEpoch that is not zero get_time returns, whatever the
\* calendar fields hold, a time whose base is SourceEpoch seconds; if
\* EpochMicroseconds is not zero either, the time is exactly SourceEpoch
\* seconds and EpochMicroseconds microseconds; a time based on the calendar
\* fields is returned only without SourceEpoch or with SourceEpoch zero.
C14_EpochPriority ==
    TimeAsked =>
        /\ HasEpoch => result.returned
        /\ (HasEpoch /\ ~HasEpochMicros) =>
              \E c \in SubSecondOffsets :
                 result.time = Instant(0, stream.pkt.SourceEpoch, c)
        /\ HasEpochMicros =>
              result.time = Instant(0, stream.pkt.SourceEpoch,
                                    stream.pkt.EpochMicroseconds)
        /\ (~HasEpoch /\ result.returned) =>
              \E c \in SubSecondOffsets : result.time = CalendarInstant(c)

\* get_time has answered 2020-03-01T00:00:01.500000 from the two epoch
\* fields of an attitude packet whose calendar and millisecond fields say
\* otherwise.
C14_Witness ==
    /\ TimeAsked
    /\ stream.cls = "XTFAttitudeData"
    /\ stream.pkt.SourceEpoch = 1583020800
    /\ stream.pkt.EpochMicroseconds = 1500000
    /\ stream.pkt.Year = 2021
    /\ stream.pkt.Month = 13
    /\ stream.pkt.Millisecond = 999
    /\ result.returned
    /\ result.time = [day |-> 18322, sec |-> 1, us |-> 500000]

\* The one sub-second contribution C15 names, in microseconds.
OneSubSecond ==
    IF hasattr(stream.cls, "HSeconds") THEN stream.pkt.HSeconds * 10000
    ELSE IF hasattr(stream.cls, "Millisecond")
    THEN stream.pkt.Millisecond * 1000
    ELSE IF hasattr(stream.cls, "Microsecond") THEN stream.pkt.Microsecond
    ELSE 0

\* C15 as claimed: a time that get_time returns without the EpochMicroseconds
\* path is the base, SourceEpoch seconds or the calendar instant, plus the
\* one sub-second contribution of the first field the object has among
\* HSeconds, Millisecond and Microsecond.
C15_SubSecondPrecision ==
    (TimeAsked /\ result.returned /\ ~HasEpochMicros) =>
        result.time = IF HasEpoch
                      THEN Instant(0, stream.pkt.SourceEpoch, OneSubSecond)
                      ELSE CalendarInstant(OneSubSecond)

\* C16 as claimed: without SourceEpoch, or with SourceEpoch zero, get_time of
\* an object with calendar fields returns for every date of the Gregorian
\* calendar a time whose base is that date at Hour:Minute:Second.
C16_EveryGregorianDate ==
    (/\ TimeAsked /\ ~HasEpoch /\ hasattr(stream.cls, "Year")
     /\ GregorianDate(stream.pkt.Year, stream.pkt.Month, stream.pkt.Day)) =>
        /\ result.returned
        /\ \E c \in SubSecondOffsets : result.time = CalendarInstant(c)

\* C16: without SourceEpoch, or with SourceEpoch zero, get_time of an object
\* with calendar fields and a Year from 1 to 9999 returns for a date of the
\* Gregorian calendar a time whose base is that date at Hour:Minute:Second,
\* and raises for a date that does not exist; 2020-03-01 00:00:00 with 50
\* hundredths gives 2020-03-01T00:00:00.500.
C16_CalendarComputation ==
    (/\ TimeAsked /\ ~HasEpoch /\ hasattr(stream.cls, "Year")
     /\ stream.pkt.Year \in 1..9999) =>
        /\ IF GregorianDate(stream.pkt.Year, stream.pkt.Month, stream.pkt.Day)
           THEN /\ result.returned
                /\ \E c \in SubSecondOffsets :
                      result.time = CalendarInstant(c)
           ELSE result.exc = DateError
        /\ (/\ stream.pkt.Year = 2020 /\ stream.pkt.Month = 3
            /\ stream.pkt.Day = 1 /\ ClockSeconds = 0
            /\ hasattr(stream.cls, "HSeconds")
            /\ stream.pkt.HSeconds = 50) =>
              result.time = [day |-> 18322, sec |-> 0, us |-> 500000]

\* get_time has answered 2020-02-29T23:59:59.990 for the leap day of 2020.
C16_Witness ==
    /\ TimeAsked
    /\ stream.cls = "XTFPingHeader"
    /\ stream.pkt.Year = 2020
    /\ stream.pkt.Month = 2
    /\ stream.pkt.Day = 29
    /\ ClockSeconds = 86399
    /\ stream.pkt.HSeconds = 99
    /\ result.returned
    /\ result.time = [day |-> 18321, sec |-> 86399, us |-> 990000]

-----------------------------------------------------------------------------
(* Properties of the enumerations.                                         *)

\* C20 as claimed: every member of an auto-incrementing enumeration is the
\* number of members declared before it, by its value and as the integer
\* it is, so that XTFChannelType is subbottom=0, port=1, stbd=2, bathy=3;
\* and loading the module does not raise 'XTFSonarType enumeration ends on
\* incorrect number'.
C20_EnumerationNumbering ==
    /\ result.op = "import" => result.exc # EndsIncorrect
    /\ result.op = "member" =>
          /\ result.member.value = stream.k - 1
          /\ result.member.number = stream.k - 1
          /\ (stream.cls = "XTFChannelType" /\ stream.name = "stbd") =>
                result.member.number = 2

-----------------------------------------------------------------------------
(* Properties of the structure layouts.                                    *)

\* The sizes the format fixes, in bytes.
ContractSizes ==
    [XTFFileHeader |-> 1024, XTFChanInfo |-> 128, XTFPacketStart |-> 14,
     XTFAttitudeData |-> 64, XTFNotesHeader |-> 256,
     XTFRawSerialHeader |-> 30, XTFPingHeader |-> 256,
     XTFPingChanHeader |-> 64, XTFHighSpeedSensor |-> 64, XTFBeamXYZA |-> 31,
     XTFHeaderGyro |-> 64, SNP0 |-> 74, SNP1 |-> 24]

\* C17: the field widths of each structure, the preamble fields of a packet
\* included, add up to the size the format fixes for it; a structure built
\* from an io source that holds at least that many bytes takes exactly that
\* many for its fixed part, and one byte less is too few.
C17_FixedStructureSizes ==
    /\ \A cls \in DOMAIN ContractSizes :
          /\ sizeof(Structures[cls]) = ContractSizes[cls]
          /\ SizeOf[cls] = ContractSizes[cls]
    /\ (/\ result.op \in {"Construct", "XTFFileHeader"}
        /\ stream.cls \in DOMAIN ContractSizes
        /\ stream.kind = "stream") =>
          /\ (stream.size >= ContractSizes[stream.cls]
              /\ stream.cls # "XTFPingHeader") =>
                result.nread = ContractSizes[stream.cls]
          /\ stream.size = ContractSizes[stream.cls] - 1 =>
                result.exc = BufferTooSmall

\* An attitude packet has been built from the 64 bytes of a source that
\* holds more.
C17_Witness ==
    /\ result.op = "Construct"
    /\ result.cls = "XTFAttitudeData"
    /\ stream.kind = "stream"
    /\ stream.size = Complete
    /\ result.returned
    /\ result.nread = 64
    /\ pos = 64

-----------------------------------------------------------------------------
(* Properties of the shared file header.                                   *)

\* What parsing the file header of the source produced.
ParsedHeader == XTFFileHeader("stream", SizeOf["XTFFileHeader"], stream.fh).obj

\* C18: after any sequence of packet decodes, returned or raised, and of
\* get_time calls that share one file header, the file header's fields, its
\* six ChanInfo descriptors and the contents and order of sonar_info and
\* bathy_info are what parsing the file header produced; no step changes
\* them.
C18_HeaderReadOnly ==
    /\ header = ParsedHeader
    /\ header.fields = stream.fh
    /\ result.op \in {"Construct", "get_time"} => result.passed = ParsedHeader

\* Two packets have been decoded with the file header, the second a sonar
\* ping of two channels whose samples were sized with sonar_info, and its
\* time was asked.
C18_Witness ==
    /\ stream.decodes = 2
    /\ result.op = "get_time"
    /\ result.cls = "XTFPingHeader"
    /\ stream.pkt.NumChansToFollow = 2
    /\ Len(header.sonar_info) = 2
    /\ header.sonar_info[1].Reserved = 1
    /\ header.sonar_info[2].Reserved = 0

-----------------------------------------------------------------------------
(* Properties of the channel binding.                                      *)

\* A state after a sonar ping was decoded with a file header.
SonarDecoded ==
    /\ PingDecoded
    /\ stream.pkt.HeaderType = XTFHeaderType.sonar

\* C19: a sonar ping decode that returns has NumChansToFollow sub-headers
\* and as many arrays; the i-th array holds the bytes read right after the
\* i-th sub-header, asked for with the sample count and width of the i-th
\* descriptor of sonar_info and typed with that width, and has the resolved
\* sample count when the source holds the whole frame; a decode with more
\* channels than sonar_info has descriptors does not return.
C19_PositionalBinding ==
    SonarDecoded =>
        /\ result.returned =>
              /\ Len(result.chans) = stream.pkt.NumChansToFollow
              /\ Len(result.data) = stream.pkt.NumChansToFollow
              /\ \A i \in 1..Len(result.data) :
                    /\ result.chans[i].appended
                    /\ result.chans[i].header_read = SizeOf["XTFPingChanHeader"]
                    /\ result.chans[i].requested = ExpectedBytes(i)
                    /\ result.data[i].width
                          = result.passed.sonar_info[i].BytesPerSample
                    /\ result.data[i].length * result.data[i].width
                          = result.chans[i].samples
                    /\ result.nread >= ReadBefore(result.chans, i)
                                       + result.chans[i].samples
                    /\ PacketBytes = Complete =>
                          result.data[i].length = ExpectedSamples(i)
        /\ stream.pkt.NumChansToFollow > Len(result.passed.sonar_info) =>
              ~result.returned

\* A returned ping of two channels whose descriptors differ in width: the
\* first array has the 2-byte samples of sonar_info[0], the second the
\* 1-byte samples of sonar_info[1].
C19_Witness ==
    /\ SonarDecoded
    /\ result.returned
    /\ Len(result.data) = 2
    /\ result.passed.sonar_info[1].BytesPerSample = 2
    /\ result.passed.sonar_info[2].BytesPerSample = 1
    /\ result.data[1] = [length |-> 1, width |-> 2]
    /\ result.data[2] = [length |-> 2, width |-> 1]


-----------------------------------------------------------------------------
(* C21: the preamble fields of every decoder in the routing table.         *)

\* The packet was framed and handed to the decoder of its tag, which built
\* its object from the bytes.
DecoderBuilt ==
    /\ Framed
    /\ result.decoder \in PacketClasses
    /\ result.nread >= SizeOf[result.decoder]

\* C21 as claimed: every decoder class of the routing table has MagicNumber,
\* HeaderType and NumBytesThisRecord at the byte offsets 0, 2 and 10 of
\* XTFPacketStart, so the object the selected decoder builds holds the tag
\* and the frame length that framing the packet with the preamble gave.
\* XTFRawCustomHeader declares NumBytesThisRecord at byte 14 and takes its
\* frame length from other bytes.
C21_CommonPreambleLayout ==
    DecoderBuilt =>
       /\ offsetof(Structures[result.decoder], "MagicNumber") = 0
       /\ offsetof(Structures[result.decoder], "HeaderType") = 2
       /\ offsetof(Structures[result.decoder], "NumBytesThisRecord") = 10
       /\ result.record.HeaderType = stream.pkt.HeaderType
       /\ result.record.NumBytesThisRecord = stream.pkt.NumBytesThisRecord

\* The decoders of the routing table that do keep the preamble layout.
C21_OtherDecoders ==
    /\ \A t \in DOMAIN XTFPacketClasses :
          XTFPacketClasses[t] # "XTFRawCustomHeader" =>
             \A f \in PreambleFields :
                offsetof(Structures[XTFPacketClasses[t]], f)
                   = offsetof(XTFPacketStart_fields, f)
    /\ (DecoderBuilt /\ result.decoder # "XTFRawCustomHeader") =>
          /\ result.record.HeaderType = stream.pkt.HeaderType
          /\ result.record.NumBytesThisRecord = stream.pkt.NumBytesThisRecord
    /\ (DecoderBuilt /\ result.decoder = "XTFRawCustomHeader") =>
          result.record.NumBytesThisRecord = stream.pkt.Word14


-----------------------------------------------------------------------------
(* C22: a sonar channel without samples.                                   *)

\* Channel i (counted from 1) of a sonar ping decoded from a complete source
\* resolved to no samples and passed the check against the frame length.
ZeroSampleChannel(i) ==
    /\ SonarDecoded
    /\ stream.pkt.MagicNumber = FACE
    /\ PacketBytes = Complete
    /\ result.chans[i].n_samples = 0
    /\ ExpectedSamples(i) = 0
    /\ result.chans[i].n_bytes = 0
    /\ result.chans[i].n_bytes_remaining >= 0

\* C22 as claimed: a sonar channel whose sub-header has NumSamples = 0 and
\* whose descriptor has the legacy count 0, in a frame that holds its headers
\* and a source that holds every byte, is decoded to an array of no samples
\* and raises no error.  buffer.read(0) gives b'', which the decoder takes for
\* the end of the file.
C22_ZeroSampleChannel ==
    \A i \in 1..Len(result.chans) :
        ZeroSampleChannel(i) =>
            /\ result.chans[i].exc = NoExc
            /\ result.chans[i].length = 0
            /\ result.exc \notin PayloadTruncated

\* What the decoder does with such a channel: it asks the source for no byte
\* and raises the error of a file that ended.
C22_ZeroSampleRaises ==
    \A i \in 1..Len(result.chans) :
        ZeroSampleChannel(i) =>
            /\ result.chans[i].requested = 0
            /\ result.chans[i].samples = 0
            /\ result.exc = FileEnded
            /\ ~result.returned

=============================================================================
